---- MODULE Spec2Model ----
(***************************************************************************)
(* Shell / flexible-constraint relaxation engine of mdlib/shellfc.cpp.     *)
(*                                                                         *)
(* `real' values are modelled as exact rationals <<n, d>> in lowest terms  *)
(* with d > 0; an rvec is a DIM-tuple of rationals.  The RMS force df is   *)
(* kept as its square (sqrt is strictly increasing on the non-negative     *)
(* reals, so `df[Try] < df[Min]' and `df < ftol' are decided on squares).  *)
(***************************************************************************)
EXTENDS Integers, Sequences, FiniteSets, TLC

(* ------------------------------------------------------------------ *)
(* Exact arithmetic for `real'                                          *)
(* ------------------------------------------------------------------ *)
Abs(n) == IF n < 0 THEN -n ELSE n

RECURSIVE Gcd(_, _)
Gcd(a, b) == IF b = 0 THEN a ELSE Gcd(b, a % b)

Rat(n, d) ==
    LET s == IF d < 0 THEN -1 ELSE 1
        g == Gcd(Abs(n), Abs(d))
    IN  <<(s * n) \div g, (s * d) \div g>>

I2R(n) == <<n, 1>>
Zero == <<0, 1>>

\* operands are in lowest terms; common factors are divided out before the
\* products are formed so that intermediate values stay small
RAdd(a, b) == LET g == Gcd(a[2], b[2])
              IN  Rat(a[1] * (b[2] \div g) + b[1] * (a[2] \div g), (a[2] \div g) * b[2])
RNeg(a)    == <<-a[1], a[2]>>
RSub(a, b) == RAdd(a, RNeg(b))
RMul(a, b) == LET g1 == Gcd(Abs(a[1]), b[2])
                  g2 == Gcd(Abs(b[1]), a[2])
              IN  <<(a[1] \div g1) * (b[1] \div g2), (a[2] \div g2) * (b[2] \div g1)>>
RInv(a)    == IF a[1] < 0 THEN <<-a[2], -a[1]>> ELSE <<a[2], a[1]>>
RDiv(a, b) == RMul(a, RInv(b))
\* n1/d1 < n2/d2 for d1, d2 > 0, by comparing continued-fraction digits
\* (no cross product is formed)
RECURSIVE FracLess(_, _, _, _)
FracLess(n1, d1, n2, d2) ==
    LET q1 == n1 \div d1
        q2 == n2 \div d2
        r1 == n1 - q1 * d1
        r2 == n2 - q2 * d2
    IN  IF q1 # q2 THEN q1 < q2
        ELSE IF r2 = 0 THEN FALSE
        ELSE IF r1 = 0 THEN TRUE
        ELSE FracLess(d2, r2, d1, r1)
RLt(a, b)  == FracLess(a[1], a[2], b[1], b[2])
RLe(a, b)  == ~RLt(b, a)
RMin(a, b) == IF RLt(b, a) THEN b ELSE a
RMax(a, b) == IF RLt(a, b) THEN b ELSE a

DIM  == 3
Axes == 1..DIM

(* math/vec.h helpers on rvec *)
clear_rvec     == [d \in Axes |-> Zero]
rvec_add(a, b) == [d \in Axes |-> RAdd(a[d], b[d])]
svmul(s, a)    == [d \in Axes |-> RMul(s, a[d])]
norm2(a)       == RAdd(RAdd(RMul(a[1], a[1]), RMul(a[2], a[2])), RMul(a[3], a[3]))
V(a, b, c)     == <<I2R(a), I2R(b), I2R(c)>>

RECURSIVE RSum(_, _)
RSum(f, S) == IF S = {} THEN Zero
              ELSE LET e == CHOOSE e \in S : TRUE
                   IN  RAdd(f[e], RSum(f, S \ {e}))

(* ------------------------------------------------------------------ *)
(* Bounds of the model                                                  *)
(* ------------------------------------------------------------------ *)
MaxCalls == 2     \* relax_shell_flexcon calls (MD steps) per behaviour
MaxIter  == 5     \* largest iteration budget inputrec->niter explored
MaxBonds == 4     \* interactions listed in a topology handed to init_shell_flexcon

eptAtom  == "eptAtom"
eptShell == "eptShell"
eptVSite == "eptVSite"

Arr(sq) == [i \in 0..(Len(sq) - 1) |-> sq[i + 1]]     \* a C array
Size(arr) == Cardinality(DOMAIN arr)

(* ------------------------------------------------------------------ *)
(* init_shell_flexcon: the global shell table built from the topology   *)
(*   mtop  : one molecule block = [ptype, q, qB, at2cg, nmol, ilist];     *)
(*           ilist[ftype] is the list of interactions of that type, each  *)
(*           [ia |-> atoms ia[1..nra], p |-> its parameters]              *)
(*   setup : [nflexcon, nstcalcenergy, nopredict, requireinit, lagrangian]*)
(* ------------------------------------------------------------------ *)
bondtypes == <<"F_BONDS", "F_HARMONIC", "F_CUBICBONDS", "F_POLARIZATION",
               "F_HYPER_POL", "F_ANHARM_POL", "F_ANISO_POL", "F_WATER_POL">>
NBT == Len(bondtypes)

ONE_4PI_EPS0 == Rat(27787097, 200000)         \* 138.935485
gmx_within_tol(a, b) == a = b                 \* charges explored are integers

natoms_mol(mt) == Size(mt.ptype)
natoms(mt)     == mt.nmol * natoms_mol(mt)    \* mtop->natoms
ptype_gl(mt, g) == mt.ptype[g % natoms_mol(mt)]

\* countPtypes(fplog, mtop)[pt]
countPtypes(mt, pt) == mt.nmol * Cardinality({a \in DOMAIN mt.ptype : mt.ptype[a] = pt})

\* shell_index: snew zero-fills it; shell particles are numbered in atom order
ShellIndex(mt) ==
    [g \in 0..(natoms(mt) - 1) |->
        IF ptype_gl(mt, g) = eptShell
        THEN Cardinality({h \in 0..(g - 1) : ptype_gl(mt, h) = eptShell})
        ELSE 0]

\* a record of the table after "Initiate the shell structures"
EmptyShell ==
    [shell |-> -1, nnucl |-> 0, nucl1 |-> -1, nucl2 |-> -1, nucl3 |-> -1,
     k_1 |-> Zero, k |-> Zero, k11 |-> Zero, k22 |-> Zero, k33 |-> Zero,
     step |-> clear_rvec, xold |-> clear_rvec, fold |-> clear_rvec]

\* "Check whether we have a bond with a shell": [aS, aN], aS = -1 if none
Endpoints(mt, ftype, ia) ==
    IF ftype = "F_WATER_POL" THEN [aS |-> ia[5], aN |-> ia[4]]
    ELSE IF ftype = "F_ANISO_POL" THEN [aS |-> -1, aN |-> 0]
    ELSE IF mt.ptype[ia[1]] = eptShell THEN [aS |-> ia[1], aN |-> ia[2]]
    ELSE IF mt.ptype[ia[2]] = eptShell THEN [aS |-> ia[2], aN |-> ia[1]]
    ELSE [aS |-> -1, aN |-> 0]

\* a fourth attachment kept in the third slot instead of refused
FillSlot_Overwrite(sh, n) ==
    IF sh.nucl1 = -1 THEN [ok |-> TRUE, sh |-> [sh EXCEPT !.nucl1 = n]]
    ELSE IF sh.nucl2 = -1 THEN [ok |-> TRUE, sh |-> [sh EXCEPT !.nucl2 = n]]
    ELSE [ok |-> TRUE, sh |-> [sh EXCEPT !.nucl3 = n]]

\* the first free slot of nucl1, nucl2, nucl3 takes the nucleus; none free: fatal
FillSlot(sh, n) ==
    IF sh.nucl1 = -1 THEN [ok |-> TRUE, sh |-> [sh EXCEPT !.nucl1 = n]]
    ELSE IF sh.nucl2 = -1 THEN [ok |-> TRUE, sh |-> [sh EXCEPT !.nucl2 = n]]
    ELSE IF sh.nucl3 = -1 THEN [ok |-> TRUE, sh |-> [sh EXCEPT !.nucl3 = n]]
    ELSE [ok |-> FALSE, sh |-> sh]

\* the polarisation types demand qA = qB of the shell
NeedsEqualCharges(ftype) == ftype \in {"F_ANHARM_POL", "F_ANISO_POL", "F_WATER_POL"}

\* a switch that keeps the constant of the last attachment only
AddK_LastOnly(sh, ftype, p, qS) ==
    CASE ftype \in {"F_BONDS", "F_HARMONIC"} -> [sh EXCEPT !.k = p.krA]
      [] ftype = "F_CUBICBONDS" -> [sh EXCEPT !.k = p.kb]
      [] ftype \in {"F_POLARIZATION", "F_HYPER_POL"} -> [sh EXCEPT !.k = p.k]
      [] OTHER -> sh

\* the switch that accumulates the force constant(s) of the shell
AddK(sh, ftype, p, qS) ==
    CASE ftype \in {"F_BONDS", "F_HARMONIC"} -> [sh EXCEPT !.k = RAdd(@, p.krA)]
      [] ftype = "F_CUBICBONDS" -> [sh EXCEPT !.k = RAdd(@, p.kb)]
      [] ftype \in {"F_POLARIZATION", "F_HYPER_POL"} -> [sh EXCEPT !.k = RAdd(@, p.k)]
      [] ftype = "F_ANHARM_POL" ->
            [sh EXCEPT !.k = RAdd(@, RDiv(RMul(RMul(qS, qS), ONE_4PI_EPS0), p.alpha))]
      [] ftype = "F_ANISO_POL" ->
            LET k2 == RAdd(sh.k, p.krA)
            IN  [sh EXCEPT !.k = k2,
                           !.k11 = RAdd(@, RDiv(k2, p.a11)),
                           !.k22 = RAdd(@, RDiv(k2, p.a22)),
                           !.k33 = RAdd(@, RDiv(k2, p.a33))]
      [] ftype = "F_WATER_POL" ->
            LET alpha == RDiv(RAdd(RAdd(p.al_x, p.al_y), p.al_z), I2R(3))
            IN  [sh EXCEPT !.k = RAdd(@, RDiv(RMul(RMul(qS, qS), ONE_4PI_EPS0), alpha))]

\* the body of the innermost loop for one interaction; st = [shell, ns,
\* bInterCG, fatal] with fatal the gmx_fatal met so far ("" for none)
ScanOne(st, mt, sidx, a_offset, ftype, e) ==
    LET ep == Endpoints(mt, ftype, e.ia)
        aS == ep.aS
        aN == ep.aN
    IN  IF aS = -1 THEN st
        ELSE
        LET nsi  == sidx[a_offset + aS]
            sh0  == st.shell[nsi]
            sh1  == IF sh0.shell = -1 THEN [sh0 EXCEPT !.shell = a_offset + aS] ELSE sh0
            ns1  == IF sh0.shell = -1 THEN st.ns + 1 ELSE st.ns
            slot == FillSlot(sh1, a_offset + aN)
        IN  IF nsi < 0 \/ nsi >= Size(st.shell)
                THEN [st EXCEPT !.fatal = "nsi out of range"]
            ELSE IF sh0.shell # -1 /\ sh0.shell # a_offset + aS
                THEN [st EXCEPT !.fatal = "Weird stuff"]
            ELSE IF ~slot.ok
                THEN [st EXCEPT !.fatal = "Can not handle more than three bonds per shell"]
            ELSE IF NeedsEqualCharges(ftype) /\ ~gmx_within_tol(mt.q[aS], mt.qB[aS])
                THEN [st EXCEPT !.fatal = "qA != qB"]
            ELSE [st EXCEPT
                    !.shell = [@ EXCEPT ![nsi] =
                                 [AddK(slot.sh, ftype, e.p, I2R(mt.q[aS]))
                                    EXCEPT !.nnucl = @ + 1]],
                    !.ns = ns1,
                    !.bInterCG = @ \/ mt.at2cg[aS] # mt.at2cg[aN]]

\* for (i = 0; i < molt->ilist[bondtypes[j]].nr; ): the entries from i on
RECURSIVE ScanEntries(_, _, _, _, _, _)
ScanEntries(st, mt, sidx, a_offset, j, i) ==
    IF st.fatal # "" \/ i > Len(mt.ilist[bondtypes[j]]) THEN st
    ELSE ScanEntries(ScanOne(st, mt, sidx, a_offset, bondtypes[j], mt.ilist[bondtypes[j]][i]),
                     mt, sidx, a_offset, j, i + 1)

\* for (j = 0; j < NBT; j++): the types from j on
RECURSIVE ScanTypes(_, _, _, _, _)
ScanTypes(st, mt, sidx, a_offset, j) ==
    IF st.fatal # "" \/ j > NBT THEN st
    ELSE ScanTypes(ScanEntries(st, mt, sidx, a_offset, j, 1), mt, sidx, a_offset, j + 1)

\* for (mol = 0; mol < molb->nmol; mol++): the molecules from mol on
RECURSIVE ScanMols(_, _, _, _, _)
ScanMols(st, mt, sidx, a_offset, mol) ==
    IF st.fatal # "" \/ mol >= mt.nmol THEN st
    ELSE ScanMols(ScanTypes(st, mt, sidx, a_offset, 1), mt, sidx,
                  a_offset + natoms_mol(mt), mol + 1)

\* the gmx_shellfc_t the caller hands in (snew: all zero, no table)
NoTable ==
    [nflexcon |-> 0, nshell_gl |-> 0, shell_gl |-> Arr(<<>>), shell_index_gl |-> Arr(<<>>),
     bPredict |-> FALSE, bRequireInit |-> FALSE, bInterCG |-> FALSE]

\* an early return that looks at the shells only
NothingToRelax_ShellsOnly(nshell, nflexcon) == nshell = 0

\* if (nshell == 0 && nflexcon == 0): not doing shells or flexible constraints
NothingToRelax(nshell, nflexcon) == nshell = 0 /\ nflexcon = 0

\* shfc->bPredict as the end of the function leaves it
Predicting_WithinChargeGroupsOrNot(nopredict, lagrangian, bInterCG) ==
    ~nopredict /\ ~lagrangian

Predicting(nopredict, lagrangian, bInterCG) ==
    ~nopredict /\ ~lagrangian /\ ~bInterCG

\* the whole function: [status, msg, shfc]; status "fatal" is a gmx_fatal
init_shell_flexcon(mt, su) ==
    LET nshell == countPtypes(mt, eptShell)
        sidx   == ShellIndex(mt)
        st0    == [shell |-> [i \in 0..(nshell - 1) |-> EmptyShell], ns |-> 0,
                   bInterCG |-> FALSE, fatal |-> ""]
        st     == ScanMols(st0, mt, sidx, 0, 0)
        pred0  == ~su.nopredict /\ ~su.lagrangian
    IN  IF NothingToRelax(nshell, su.nflexcon)
            THEN [status |-> "returned", msg |-> "", shfc |-> NoTable]
        ELSE IF su.nstcalcenergy # 1
            THEN [status |-> "fatal", msg |-> "nstcalcenergy",
                  shfc |-> [NoTable EXCEPT !.nflexcon = su.nflexcon]]
        ELSE IF nshell = 0
            THEN [status |-> "returned", msg |-> "",
                  shfc |-> [NoTable EXCEPT !.nflexcon = su.nflexcon]]
        ELSE IF st.fatal # ""
            THEN [status |-> "fatal", msg |-> st.fatal,
                  shfc |-> [NoTable EXCEPT !.nflexcon = su.nflexcon, !.bInterCG = st.bInterCG]]
        ELSE IF st.ns # nshell
            THEN [status |-> "fatal", msg |-> "Something weird with shells",
                  shfc |-> [NoTable EXCEPT !.nflexcon = su.nflexcon, !.bInterCG = st.bInterCG]]
        ELSE [status |-> "returned", msg |-> "",
              shfc |-> [nflexcon |-> su.nflexcon,
                        nshell_gl |-> st.ns,
                        shell_gl |-> [i \in DOMAIN st.shell |->
                                        [st.shell[i] EXCEPT !.k_1 = RInv(st.shell[i].k)]],
                        shell_index_gl |-> sidx,
                        bPredict |-> Predicting(su.nopredict, su.lagrangian, st.bInterCG),
                        bRequireInit |-> pred0 /\ su.requireinit,
                        bInterCG |-> st.bInterCG]]

\* Topologies explored by the builder runs: a molecule type of four particles
\* (two charge groups) with two shells, one shell or none, one or two
\* molecules of it, and up to MaxBonds interactions drawn from Interactions
BuildPtypes  == { Arr(<<eptAtom, eptShell, eptAtom, eptShell>>),
                  Arr(<<eptAtom, eptShell, eptAtom, eptAtom>>),
                  Arr(<<eptAtom, eptAtom, eptAtom, eptAtom>>) }
BuildCharges == Arr(<<1, -1, 2, -2>>)
BuildAt2cg   == Arr(<<0, 0, 1, 1>>)
Interactions ==
    << [ftype |-> "F_BONDS",        ia |-> <<0, 1>>, p |-> [krA |-> I2R(2)]],
       [ftype |-> "F_BONDS",        ia |-> <<1, 2>>, p |-> [krA |-> I2R(1)]],
       [ftype |-> "F_HARMONIC",     ia |-> <<2, 3>>, p |-> [krA |-> I2R(1)]],
       [ftype |-> "F_CUBICBONDS",   ia |-> <<0, 2>>, p |-> [kb |-> I2R(1)]],
       [ftype |-> "F_POLARIZATION", ia |-> <<0, 1>>, p |-> [k |-> I2R(3)]],
       [ftype |-> "F_HYPER_POL",    ia |-> <<3, 1>>, p |-> [k |-> I2R(1)]],
       [ftype |-> "F_ANHARM_POL",   ia |-> <<3, 2>>, p |-> [alpha |-> I2R(1)]],
       [ftype |-> "F_ANISO_POL",    ia |-> <<3, 2, 0, 0, 2>>,
        p |-> [krA |-> I2R(1), a11 |-> I2R(1), a22 |-> I2R(1), a33 |-> I2R(2)]],
       [ftype |-> "F_WATER_POL",    ia |-> <<0, 0, 2, 2, 3>>,
        p |-> [al_x |-> I2R(1), al_y |-> I2R(1), al_z |-> I2R(1)]],
       [ftype |-> "F_WATER_POL",    ia |-> <<0, 0, 2, 0, 2>>,
        p |-> [al_x |-> I2R(1), al_y |-> I2R(1), al_z |-> I2R(1)]] >>

\* the lists of at most n interactions, as indices into Interactions in the
\* order the file lists them (the scan goes type by type, so only the order
\* within a type matters)
RECURSIVE BondLists(_)
BondLists(n) ==
    IF n = 0 THEN { <<>> }
    ELSE LET shorter == BondLists(n - 1)
         IN  shorter \cup
             { lst \in { Append(l, e) : l \in {s \in shorter : Len(s) = n - 1},
                                        e \in DOMAIN Interactions } :
                 \/ n = 1
                 \/ lst[n] > lst[n - 1]
                 \/ Interactions[lst[n]].ftype = Interactions[lst[n - 1]].ftype }

MkTop(pt, nmol, qB3, l) ==
    [ptype |-> pt, q |-> BuildCharges, qB |-> [BuildCharges EXCEPT ![3] = qB3],
     at2cg |-> BuildAt2cg, nmol |-> nmol,
     ilist |-> [ft \in {bondtypes[j] : j \in 1..NBT} |->
                  LET mine == SelectSeq(l, LAMBDA e : Interactions[e].ftype = ft)
                  IN  [i \in 1..Len(mine) |->
                         [ia |-> Interactions[mine[i]].ia, p |-> Interactions[mine[i]].p]]]]

Setups ==
    { [nflexcon |-> 0, nstcalcenergy |-> 1, nopredict |-> FALSE, requireinit |-> FALSE,
       lagrangian |-> FALSE],
      [nflexcon |-> 0, nstcalcenergy |-> 2, nopredict |-> FALSE, requireinit |-> FALSE,
       lagrangian |-> FALSE],
      [nflexcon |-> 1, nstcalcenergy |-> 1, nopredict |-> TRUE, requireinit |-> FALSE,
       lagrangian |-> FALSE],
      [nflexcon |-> 0, nstcalcenergy |-> 1, nopredict |-> FALSE, requireinit |-> TRUE,
       lagrangian |-> FALSE],
      [nflexcon |-> 1, nstcalcenergy |-> 2, nopredict |-> FALSE, requireinit |-> TRUE,
       lagrangian |-> TRUE] }


(* ------------------------------------------------------------------ *)
(* The simulated system of the relaxation runs                          *)
(*   atoms 0,1 : nucleus and its shell        (k = 2)                   *)
(*   atoms 2-4 : two nuclei and their shell   (k = 1)                   *)
(*   atom  5   : an unpolarisable particle                              *)
(* ------------------------------------------------------------------ *)
ptypeGl == Arr(<<eptAtom, eptShell, eptAtom, eptAtom, eptShell, eptAtom>>)
massGl  == Arr(<<I2R(3), Zero, I2R(3), I2R(1), Zero, I2R(1)>>)
GAtoms  == DOMAIN ptypeGl

\* its topology and the table init_shell_flexcon builds from it
RelaxTopology ==
    [ptype |-> ptypeGl, q |-> Arr(<<1, -1, 1, 1, -2, 0>>), qB |-> Arr(<<1, -1, 1, 1, -2, 0>>),
     at2cg |-> Arr(<<0, 0, 1, 1, 1, 2>>), nmol |-> 1,
     ilist |-> [ft \in {bondtypes[j] : j \in 1..NBT} |->
                  IF ft = "F_BONDS"
                  THEN << [ia |-> <<0, 1>>, p |-> [krA |-> I2R(2)]],
                          [ia |-> <<2, 4>>, p |-> [krA |-> Rat(1, 2)]],
                          [ia |-> <<3, 4>>, p |-> [krA |-> Rat(1, 2)]] >>
                  ELSE << >>]]
RelaxSetup ==
    [nflexcon |-> 0, nstcalcenergy |-> 1, nopredict |-> FALSE, requireinit |-> FALSE,
     lagrangian |-> FALSE]
\* the same system with atom 5 bound to the shell of atoms 2-4 as a third
\* nucleus, in their charge group (the three force constants again sum to 1)
ThreeNuclei ==
    [RelaxTopology EXCEPT !.at2cg = Arr(<<0, 0, 1, 1, 1, 1>>),
                          !.ilist["F_BONDS"] =
                              << [ia |-> <<0, 1>>, p |-> [krA |-> I2R(2)]],
                                 [ia |-> <<2, 4>>, p |-> [krA |-> Rat(1, 4)]],
                                 [ia |-> <<3, 4>>, p |-> [krA |-> Rat(1, 4)]],
                                 [ia |-> <<5, 4>>, p |-> [krA |-> Rat(1, 2)]] >>]
\* the runs explored: the shell of atoms 2-4 in the charge group of its nuclei
\* or in one of its own, or with three nuclei; GMX_NOPREDICT unset or set ...
\* the same system with particle 5 a virtual site
WithVSite == [RelaxTopology EXCEPT !.ptype = [ptypeGl EXCEPT ![5] = eptVSite]]
RelaxTopologies ==
    { RelaxTopology, [RelaxTopology EXCEPT !.at2cg = Arr(<<0, 0, 1, 1, 2, 3>>)], ThreeNuclei,
      WithVSite }
\* ... or one flexible constraint
RelaxSetups ==
    { [RelaxSetup EXCEPT !.nopredict = np] : np \in BOOLEAN }
        \cup { [RelaxSetup EXCEPT !.nflexcon = 1] }
RelaxShells     == init_shell_flexcon(RelaxTopology, RelaxSetup).shfc.shell_gl
RelaxShellIndex == init_shell_flexcon(RelaxTopology, RelaxSetup).shfc.shell_index_gl

\* Decompositions explored: the ranks, and per rank the global index of
\* every local atom (dd->gatindex; home atoms only)
Partitions ==
    { [dd |-> FALSE, gatindex |-> Arr(<<Arr(<<0, 1, 2, 3, 4, 5>>)>>)],
      [dd |-> TRUE,  gatindex |-> Arr(<<Arr(<<0, 1>>), Arr(<<2, 3, 4, 5>>)>>)],
      [dd |-> TRUE,  gatindex |-> Arr(<<Arr(<<5>>), Arr(<<2, 3, 4, 0, 1>>)>>)] }

\* (force field, em_tol) pairs explored
ForceFields ==
    { [kind |-> "harm",  K |-> 1,  em_tol |-> I2R(1)],
      [kind |-> "harm",  K |-> 1,  em_tol |-> Rat(1, 2)],
      [kind |-> "harm",  K |-> 1,  em_tol |-> Rat(1, 4)],
      [kind |-> "harm",  K |-> 1,  em_tol |-> Rat(1, 10)],
      [kind |-> "harm",  K |-> -1, em_tol |-> I2R(1)],
      [kind |-> "bond",  K |-> 2,  em_tol |-> I2R(2)],
      [kind |-> "const", K |-> 1,  em_tol |-> I2R(1)],
      [kind |-> "mixed", K |-> 1,  em_tol |-> Rat(6, 5)] }

Budgets == 0..MaxIter                         \* inputrec->niter explored
delta_t == Rat(1, 2)                          \* inputrec->delta_t

\* caller-owned coordinates handed to a step: nuclei fixed, shells drawn
ShellStarts == { V(0, 0, 0), V(1, -1, 2) }
NuclX == Arr(<<V(1, 0, 0), clear_rvec, V(0, 0, 0), V(0, 4, 0), clear_rvec, V(3, 3, 3)>>)
NuclV == Arr(<<V(2, 0, 0), clear_rvec, V(0, 0, 0), V(0, 0, 8), clear_rvec, V(1, 1, 1)>>)
StartX(p, gat) == [a \in DOMAIN gat |-> IF ptypeGl[gat[a]] = eptShell THEN p ELSE NuclX[gat[a]]]
StartV(gat)    == [a \in DOMAIN gat |-> NuclV[gat[a]]]

\* srenew'ed buffers are not initialised: an element never written holds
\* UNINIT, and reading it yields any of the values in Garbage
UNINIT  == <<>>
Garbage == { V(0, 0, 0), V(7, 7, 7) }
ReadBuf(buf, g) == [a \in DOMAIN buf |-> IF buf[a] = UNINIT THEN g ELSE buf[a]]

(* ------------------------------------------------------------------ *)
(* State.  Every rank runs its own copy of the engine; variables that   *)
(* live in a rank's memory are functions of the rank.                   *)
(* ------------------------------------------------------------------ *)
VARIABLES
    cr,          \* the decomposition (commrec / domdec): [dd, gatindex]
    shell_gl,    \* [rank] shfc->shell_gl, the global shell table
    shell_loc,   \* [rank] the array make_local_shells fills under DD
    shell_nalloc,  \* [rank] shfc->shell_nalloc, the capacity of that array
    pos,         \* [rank] shfc->x[0..1]: the two position buffers
    force,       \* [rank] shfc->f[0..1]: the two force buffers
    numForceEvaluations,      \* [rank] shfc->numForceEvaluations
    numConvergedIterations,   \* [rank] shfc->numConvergedIterations
    bPredict,    \* shfc->bPredict
    inputrec,    \* em_tol, niter, init_step, bContinuation, update mode
    evaluator,   \* the force field do_force applies
    state,       \* [rank] caller's t_state: [x, v]
    f,           \* [rank] caller's force array rvec f[]
    mdstep,      \* step number of the running/last call
    Min,         \* [rank] index of the accepted buffer; Try is 1 - Min
    count,       \* [rank] loop counter of relax_shell_flexcon
    df,          \* [rank] df[0..1], squared RMS force of each buffer
    bConverged,  \* [rank]
    pc,          \* "idle" | "loop" | "returned" | "fatal"
    warned,      \* [rank] the call wrote "EM did not converge"
    nCalls,      \* history: calls of relax_shell_flexcon started
    nDoForce,    \* history: [rank] invocations of do_force, all calls
    dfEval,      \* history: [rank] squared RMS force of every evaluation of this call
    outcome,     \* history: [rank] bConverged at the end of every completed call
    atEntry,     \* history: the counters as the running/last call found them
    arg,         \* history: the inputs of the running/last call
    prevRun,     \* history: inputs and results of the completed call before it
    mtop,        \* the topology handed to init_shell_flexcon
    setup,       \* its other arguments and the environment
    shfc,        \* what init_shell_flexcon has stored in the gmx_shellfc_t
    ipc,         \* init_shell_flexcon: "start" | "returned" | "fatal"
    fatalMsg,    \* the gmx_fatal it ended with
    idef,        \* apply_drude_hardwall: idef->il of F_BONDS and F_POLARIZATION
    md,          \* its t_mdatoms: [ptype, massT]
    ir,          \* its t_inputrec: [delta_t, kbt, drude_r]
    hw_state,    \* its t_state: [x, v]
    force_vir,   \* its virial tensor
    hw_j,        \* the entry the double loop visits next
    hw_pc,       \* "idle" | "loop" | "returned" | "fatal"
    hw_log       \* history: what the loop met and did at every entry visited

relaxVars == <<cr, shell_gl, shell_loc, shell_nalloc, pos, force, numForceEvaluations,
          numConvergedIterations, bPredict, inputrec, evaluator, state, f, mdstep,
          Min, count, df, bConverged, pc, warned, nCalls, nDoForce, dfEval, outcome,
          atEntry, arg, prevRun>>
buildVars == <<mtop, setup, shfc, ipc, fatalMsg>>
wallVars == <<idef, md, ir, hw_state, force_vir, hw_j, hw_pc, hw_log>>
vars == <<relaxVars, buildVars, wallVars>>

Ranks        == DOMAIN cr.gatindex
DOMAINDECOMP == cr.dd
PAR          == Size(cr.gatindex) > 1
MASTER(r)    == r = 0
nat(r)       == Size(cr.gatindex[r])       \* local atom count
shell(r)     == IF DOMAINDECOMP THEN shell_loc[r] ELSE shell_gl[r]   \* shfc->shell
nshell(r)    == Size(shell(r))             \* shfc->nshell
nflexcon     == shfc.nflexcon              \* shfc->nflexcon
vsite        == mtop.ptype[5] = eptVSite   \* gmx_vsite_t *vsite is not NULL
Try(r)       == 1 - Min[r]                 \* #define Try (1-Min)
ftol2        == RMul(inputrec.em_tol, inputrec.em_tol)

(* ------------------------------------------------------------------ *)
(* make_local_shells                                                    *)
(* ------------------------------------------------------------------ *)
\* the array built under DD for a rank with local->global map gat
make_local_shells_GlobalIndices(gat, sgl, ind) ==
    LET home == {i \in DOMAIN gat : ptypeGl[gat[i]] = eptShell}
        nth(n) == CHOOSE i \in home : Cardinality({j \in home : j < i}) = n
    IN  [n \in 0..(Cardinality(home) - 1) |->
            [sgl[ind[gat[nth(n)]]] EXCEPT !.shell = nth(n)]]

make_local_shells(gat, sgl, ind) ==
    LET home == {i \in DOMAIN gat : ptypeGl[gat[i]] = eptShell}
        nth(n) == CHOOSE i \in home : Cardinality({j \in home : j < i}) = n
    IN  [n \in 0..(Cardinality(home) - 1) |->
            LET i == nth(n)
                g == sgl[ind[gat[i]]]
            IN  [g EXCEPT
                   !.nucl1 = i + g.nucl1 - g.shell,
                   !.nucl2 = IF g.nnucl > 1 THEN i + g.nucl2 - g.shell ELSE g.nucl2,
                   !.nucl3 = IF g.nnucl > 2 THEN i + g.nucl3 - g.shell ELSE g.nucl3,
                   !.shell = i]]

\* over_alloc_dd (domdec): n itself, or n over-allocated by 19 % plus 100
over_alloc_dd(n, bOverAlloc) == IF bOverAlloc THEN (119 * n) \div 100 + 100 ELSE n

\* shfc->shell_nalloc after the loop has stored ns records one by one,
\* the array being renewed whenever record number n + 1 does not fit
RECURSIVE shell_nalloc_after(_, _, _, _)
shell_nalloc_after(nalloc, n, ns, bOverAlloc) ==
    IF n = ns THEN nalloc
    ELSE shell_nalloc_after(IF n + 1 > nalloc THEN over_alloc_dd(n + 1, bOverAlloc)
                                              ELSE nalloc,
                            n + 1, ns, bOverAlloc)

\* the capacities the first call of make_local_shells leaves
FirstCapacity(bOverAlloc) ==
    [r \in Ranks |-> IF DOMAINDECOMP
                     THEN shell_nalloc_after(0, 0, Size(shell_loc[r]), bOverAlloc)
                     ELSE 0]

(* ------------------------------------------------------------------ *)
(* Helpers of relax_shell_flexcon                                       *)
(* ------------------------------------------------------------------ *)
\* The external force evaluator do_force: a deterministic function of the
\* positions.  "harm": f = -K.x on every shell; "bond": f = -K.k.x with k the
\* restraint constant of the shell in the table; "const": the same force at
\* any position; "mixed": the constant force K along x and -y/2, -z/2 along
\* the other axes.  Forces on the other particles are not read by the iterator.
do_force(ev, gat, x) ==
    [a \in DOMAIN x |->
        IF ptypeGl[gat[a]] # eptShell THEN clear_rvec
        ELSE IF ev.kind = "const" THEN V(ev.K, 0, 0)
        ELSE IF ev.kind = "mixed"
             THEN [d \in Axes |-> IF d = 1 THEN I2R(ev.K) ELSE RNeg(RDiv(x[a][d], I2R(2)))]
        ELSE LET kk == IF ev.kind = "bond"
                       THEN RMul(I2R(ev.K), shfc.shell_gl[shfc.shell_index_gl[gat[a]]].k)
                       ELSE I2R(ev.K)
             IN  [d \in Axes |-> RNeg(RMul(kk, x[a][d]))]]

\* The external construct_vsites: the site (particle 5) is put on the shell
\* of atoms 2-4; every other position is left as it is.
VSiteFrom == 4
construct_vsites(gat, x) ==
    [a \in DOMAIN x |->
        IF mtop.ptype[gat[a]] = eptVSite
        THEN x[CHOOSE b \in DOMAIN x : gat[b] = VSiteFrom]
        ELSE x[a]]

\* the coordinates the caller hands over: its virtual sites are constructed
CallerX(p, gat) == IF vsite THEN construct_vsites(gat, StartX(p, gat)) ELSE StartX(p, gat)

\* init_adir with the external constraint solver: the acceleration along the
\* flexible constraint, a deterministic function of the positions.  The one
\* flexible constraint holds atom 3, which it draws towards FlexTarget.
FlexAtom    == 3
FlexTarget  == V(0, 2, 0)
fc_stepsize == I2R(1)                         \* fr->fc_stepsize
init_adir(gat, x) ==
    [a \in DOMAIN x |->
        IF gat[a] = FlexAtom THEN [d \in Axes |-> RSub(FlexTarget[d], x[a][d])]
        ELSE clear_rvec]

\* sf_dir += md->massT[i]*norm2(acc_dir[i-start]) over the home atoms
sf_dir(gat, acc_dir) ==
    RSum([a \in DOMAIN acc_dir |-> RMul(massGl[gat[a]], norm2(acc_dir[a]))], DOMAIN acc_dir)

\* directional_sd(xold, xnew, acc_dir, start, homenr, step)
directional_sd(xold, acc_dir, step) ==
    [a \in DOMAIN xold |-> [d \in Axes |-> RAdd(xold[a][d], RMul(step, acc_dir[a][d]))]]

\* the correction left out
CorrectVelocities_None(v, xTry, xMin, dt) == v

\* state->v[i][d] += (pos[Try][i][d] - pos[Min][i][d])*invdt
CorrectVelocities(v, xTry, xMin, dt) ==
    [a \in DOMAIN v |->
        [d \in Axes |-> RAdd(v[a][d], RMul(RSub(xTry[a][d], xMin[a][d]), RInv(dt)))]]

\* predict_shells(x, v, dt, ns, s, mass, NULL, bInit): returns the new x
predict_shells_Unweighted(x, v, dt, s, mass, bInit) ==
    LET ptr  == IF bInit THEN x ELSE v
        dt_1 == IF bInit THEN I2R(1) ELSE dt
        nucl(i) == { s[i].nucl1 } \cup (IF s[i].nnucl >= 2 THEN { s[i].nucl2 } ELSE {})
                                 \cup (IF s[i].nnucl >= 3 THEN { s[i].nucl3 } ELSE {})
    IN  [a \in DOMAIN x |->
            IF \E i \in DOMAIN s : s[i].shell = a
            THEN LET i == CHOOSE i \in DOMAIN s : s[i].shell = a
                 IN  [d \in Axes |->
                        RAdd(IF bInit THEN Zero ELSE x[a][d],
                             RMul(RDiv(dt_1, I2R(s[i].nnucl)),
                                  RSum([n \in nucl(i) |-> ptr[n][d]], nucl(i))))]
            ELSE x[a]]

predict_shells(x, v, dt, s, mass, bInit) ==
    LET ptr  == IF bInit THEN x ELSE v
        dt_1 == IF bInit THEN I2R(1) ELSE dt
        base(i) == IF bInit THEN clear_rvec ELSE x[s[i].shell]
        disp(i) ==
            CASE s[i].nnucl = 1 -> svmul(dt_1, ptr[s[i].nucl1])
              [] s[i].nnucl = 2 ->
                    LET m1 == mass[s[i].nucl1]
                        m2 == mass[s[i].nucl2]
                        tm == RDiv(dt_1, RAdd(m1, m2))
                    IN  svmul(tm, rvec_add(svmul(m1, ptr[s[i].nucl1]),
                                           svmul(m2, ptr[s[i].nucl2])))
              [] s[i].nnucl = 3 ->
                    LET m1 == mass[s[i].nucl1]
                        m2 == mass[s[i].nucl2]
                        m3 == mass[s[i].nucl3]
                        tm == RDiv(dt_1, RAdd(RAdd(m1, m2), m3))
                    IN  svmul(tm, rvec_add(rvec_add(svmul(m1, ptr[s[i].nucl1]),
                                                    svmul(m2, ptr[s[i].nucl2])),
                                           svmul(m3, ptr[s[i].nucl3])))
    IN  [a \in DOMAIN x |->
            IF \E i \in DOMAIN s : s[i].shell = a
            THEN LET i == CHOOSE i \in DOMAIN s : s[i].shell = a
                 IN  rvec_add(base(i), disp(i))
            ELSE x[a]]

\* rms_force: the rank-local part of buf[0]
rms_force_buf0(ff, s, sf) ==
    RAdd(sf, RSum([i \in DOMAIN s |-> norm2(ff[s[i].shell])], DOMAIN s))

\* gmx_sumd over the ranks
gmx_sumd(vals) == RSum(vals, DOMAIN vals)

rms_force_Local(r, buf0, ns, ndir, par) ==
    IF ns[r] + ndir # 0 THEN RDiv(buf0[r], I2R(ns[r] + ndir)) ELSE Zero

\* rms_force(cr, f, ns, s, ndir, &sf_dir, &Epot) of rank r, squared; buf0 and
\* ns give every rank's local sum and shell count
rms_force(r, buf0, ns, ndir, par) ==
    LET b0   == IF par THEN gmx_sumd(buf0) ELSE buf0[r]
        ntot == (IF par THEN gmx_sumd([q \in DOMAIN ns |-> I2R(ns[q])])[1] ELSE ns[r]) + ndir
    IN  IF ntot # 0 THEN RDiv(b0, I2R(ntot)) ELSE Zero

step_scale_min       == Rat(8, 10)
step_scale_increment == Rat(2, 10)
step_scale_max       == Rat(12, 10)
step_scale_multiple  == RDiv(RSub(step_scale_max, step_scale_min), step_scale_increment)

NewStep_Unclamped(st, dx, dfd) ==
    IF dfd # Zero
    THEN RAdd(RMul(Rat(8, 10), st), RMul(Rat(2, 10), RMax(RNeg(RDiv(dx, dfd)), Zero)))
    ELSE IF dx = Zero THEN st
    ELSE RMul(st, Rat(12, 10))

NewStep_GrowOnlyAtRest(st, dx, dfd) ==
    IF dfd # Zero
    THEN RAdd(RMul(Rat(8, 10), st),
              RMul(Rat(2, 10), RMin(RMul(I2R(2), st), RMax(RNeg(RDiv(dx, dfd)), Zero))))
    ELSE IF dx = Zero THEN RMul(st, Rat(12, 10))
    ELSE st

\* the per-axis step update of shell_pos_sd for count > 1
NewStep(st, dx, dfd) ==
    IF dfd # Zero
    THEN LET k_est == RNeg(RDiv(dx, dfd))
         IN  RAdd(RMul(step_scale_min, st),
                  RMul(step_scale_increment,
                       RMin(RMul(step_scale_multiple, st), RMax(k_est, Zero))))
    ELSE IF dx = Zero THEN st
    ELSE RMul(st, step_scale_max)

shell_pos_sd_s_NoReset(xcur, ff, s, cnt) ==
    [i \in DOMAIN s |->
        [s[i] EXCEPT !.step = [d \in Axes |->
                                  NewStep(s[i].step[d],
                                          RSub(xcur[s[i].shell][d], s[i].xold[d]),
                                          RSub(ff[s[i].shell][d], s[i].fold[d]))],
                     !.xold = xcur[s[i].shell], !.fold = ff[s[i].shell]]]

\* shell_pos_sd(xcur, xnew, f, ns, s, count): the updated shell table
shell_pos_sd_s(xcur, ff, s, cnt) ==
    [i \in DOMAIN s |->
        LET sh == s[i].shell
            st == IF cnt = 1
                  THEN [d \in Axes |-> s[i].k_1]
                  ELSE [d \in Axes |->
                           NewStep(s[i].step[d],
                                   RSub(xcur[sh][d], s[i].xold[d]),
                                   RSub(ff[sh][d], s[i].fold[d]))]
        IN  [s[i] EXCEPT !.step = st, !.xold = xcur[sh], !.fold = ff[sh]]]

\* do_1pos3(xnew, xold, f, step)
do_1pos3(xold, ff, step) == [d \in Axes |-> RAdd(xold[d], RMul(ff[d], step[d]))]

\* shell_pos_sd: the trial positions xnew, given the updated table s2
shell_pos_sd_x(xcur, xnew, ff, s2) ==
    [a \in DOMAIN xnew |->
        IF \E i \in DOMAIN s2 : s2[i].shell = a
        THEN LET i == CHOOSE i \in DOMAIN s2 : s2[i].shell = a
             IN  do_1pos3(xcur[a], ff[a], s2[i].step)
        ELSE xnew[a]]

decrease_step_size_Keep(s) == s

\* decrease_step_size(nshell, s)
decrease_step_size(s) ==
    [i \in DOMAIN s |-> [s[i] EXCEPT !.step = svmul(Rat(8, 10), s[i].step)]]

\* a start that is never taken as converged
ConvergedAtStart_Never(d, tol2) == FALSE

\* bConverged = (df[Min] < ftol), before the loop
ConvergedAtStart(d, tol2) == RLt(d, tol2)

\* bConverged = (df[Try] < ftol), in the loop
Converged(d, tol2) == RLt(d, tol2)

\* a prediction on the first step of a continuation as well
Predicts_AlsoOnContinuation(bPred, bCont) == bPred

\* if (shfc->bPredict && !bCont)
Predicts(bPred, bCont) == bPred /\ ~bCont

\* a loop that runs one pass beyond the budget
LoopContinues_OneMore(conv, cnt, number_steps) == ~conv /\ cnt <= number_steps

\* a loop that does not stop on convergence
LoopContinues_PastConvergence(conv, cnt, number_steps) == cnt < number_steps

\* the condition of `for (count = 1; !bConverged && count < number_steps; count++)'
LoopContinues(conv, cnt, number_steps) == ~conv /\ cnt < number_steps

\* every trial accepted
Accept_Always(dTry, dMin) == TRUE

\* a trial as good as the accepted best accepted
Accept_OnTie(dTry, dMin) == RLe(dTry, dMin)

\* if (df[Try] < df[Min])
Accept(dTry, dMin) == RLt(dTry, dMin)

\* only the trial evaluations counted
AddEvaluations_TrialsOnly(n, cnt) == n + cnt - 1

\* shfc->numForceEvaluations += count
AddEvaluations(n, cnt) == n + cnt

\* the trial buffer copied back
CopyBack_Trial(buf, m) == buf[1 - m]

\* the buffer copied back to the caller: memcpy(state->x, pos[Min], ...)
CopyBack(buf, m) == buf[m]

(* ------------------------------------------------------------------ *)
(* apply_drude_hardwall                                                 *)
(* ------------------------------------------------------------------ *)
\* `real' with the one non-number the function can produce: 0.0/0.0.  A NaN
\* operand makes the result of every operation NaN and every comparison false
NaN == <<0, 0>>
isnan(a) == a = NaN
FAdd(a, b) == IF isnan(a) \/ isnan(b) THEN NaN ELSE RAdd(a, b)
FSub(a, b) == IF isnan(a) \/ isnan(b) THEN NaN ELSE RSub(a, b)
FMul(a, b) == IF isnan(a) \/ isnan(b) THEN NaN ELSE RMul(a, b)
\* a non-zero number is never divided by zero on the inputs explored
FDiv(a, b) == IF isnan(a) \/ isnan(b) \/ (a = Zero /\ b = Zero) THEN NaN ELSE RDiv(a, b)
FGt(a, b)  == ~isnan(a) /\ ~isnan(b) /\ RLt(b, a)
fabs(a)    == IF isnan(a) THEN NaN ELSE <<Abs(a[1]), a[2]>>
\* the lengths and kT/m explored are squares of rationals
ISqrt(n)   == CHOOSE k \in 0..n : k * k = n
sqrt(a)    == IF isnan(a) THEN NaN ELSE <<ISqrt(a[1]), ISqrt(a[2])>>

rvec_inc(a, b) == [d \in Axes |-> FAdd(a[d], b[d])]
rvec_sub(a, b) == [d \in Axes |-> FSub(a[d], b[d])]
svmulF(s, a)   == [d \in Axes |-> FMul(s, a[d])]
iprod(a, b)    == FAdd(FAdd(FMul(a[1], b[1]), FMul(a[2], b[2])), FMul(a[3], b[3]))
norm2F(a)      == iprod(a, a)
pbc_dx(x1, x2) == rvec_sub(x1, x2)            \* ePBC = epbcNONE

\* the entries in the order the double loop visits them
flocal == <<"F_BONDS", "F_POLARIZATION">>
Entries(il) == il[flocal[1]] \o il[flocal[2]]

DrudePair_AnyBond(ptype, iatoms) ==
    IF ptype[iatoms[1]] = eptShell THEN <<iatoms[2], iatoms[1]>> ELSE <<iatoms[1], iatoms[2]>>

\* <<ia, ib>>, the heavy atom and the Drude of an entry, or <<>> when the
\* entry does not join one shell to one atom
DrudePair(ptype, iatoms) ==
    IF ptype[iatoms[1]] = eptShell /\ ptype[iatoms[2]] = eptAtom
    THEN <<iatoms[2], iatoms[1]>>
    ELSE IF ptype[iatoms[1]] = eptAtom /\ ptype[iatoms[2]] = eptShell
    THEN <<iatoms[1], iatoms[2]>>
    ELSE <<>>

\* if (rab2 > rwall2)
OutsideWall(rab2, rwall2) == FGt(rab2, rwall2)

TooFar_AtCeiling(rab, rwall) == FGt(rab, rwall)

TooFar(rab, rwall) == FGt(rab, FMul(I2R(2), rwall))

\* va and vb along the unit bond vector: the velocity of the pair's centre
\* of mass, and each particle's velocity relative to it
BondVelocities(va, vb, ma, mb, vecab) ==
    LET dprod1 == iprod(va, vecab)
        dprod2 == iprod(vb, vecab)
        vbcom  == FDiv(FAdd(FMul(ma, dprod1), FMul(mb, dprod2)), FAdd(ma, mb))
    IN  [vbcom |-> vbcom, dprod_vr1 |-> FSub(dprod1, vbcom),
         dprod_vr2 |-> FSub(dprod2, vbcom)]

\* the time dt since the pair crossed the wall, at most max_t
CollisionTime(dr, dprod_vr1, dprod_vr2, max_t) ==
    IF dprod_vr1 = dprod_vr2 THEN max_t
    ELSE LET q == FDiv(dr, fabs(FSub(dprod_vr1, dprod_vr2)))
         IN  IF FGt(q, max_t) THEN max_t ELSE q

\* tmp_dprod_vr: the relative bond velocity reflected and rescaled to the
\* thermal velocity vbond; m is the mass of the other particle for the heavy
\* atom and its own for the Drude, as written
ReflectedVelocity(dprod_vr, vbond, m, mtot) ==
    FDiv(FMul(FMul(FMul(I2R(-1), dprod_vr), vbond), m), FMul(fabs(dprod_vr), mtot))

\* the corrected positions and velocities of the pair
Corrected(xa, xb, va, vb, ma, mb, vecab, dr, vbcom, dt, tmp_dprod_vr1, tmp_dprod_vr2) ==
    LET mtot == FAdd(ma, mb)
        dr_a == FAdd(FDiv(FMul(dr, mb), mtot), FMul(dt, tmp_dprod_vr1))
        dr_b == FAdd(FDiv(FMul(FMul(I2R(-1), dr), ma), mtot), FMul(dt, tmp_dprod_vr2))
    IN  [xa |-> rvec_inc(xa, svmulF(dr_a, vecab)),
         xb |-> rvec_inc(xb, svmulF(dr_b, vecab)),
         va |-> rvec_inc(va, svmulF(FAdd(tmp_dprod_vr1, vbcom), vecab)),
         vb |-> rvec_inc(vb, svmulF(FAdd(tmp_dprod_vr2, vbcom), vecab)),
         dt |-> dt]

\* the body of `if (rab2 > rwall2)' past the gmx_fatal, for the unit bond
\* vector vecab, the excess length dr and the bond velocities bv
Reflect(xa, xb, va, vb, ma, mb, vecab, dr, inp, bv) ==
    Corrected(xa, xb, va, vb, ma, mb, vecab, dr, bv.vbcom,
              CollisionTime(dr, bv.dprod_vr1, bv.dprod_vr2, FMul(I2R(2), inp.delta_t)),
              ReflectedVelocity(bv.dprod_vr1, sqrt(FDiv(inp.kbt, mb)), mb, FAdd(ma, mb)),
              ReflectedVelocity(bv.dprod_vr2, sqrt(FDiv(inp.kbt, mb)), ma, FAdd(ma, mb)))

\* the copies back into state->x and state->v
WriteBack(st, ia, ib, c) ==
    [x |-> [st.x EXCEPT ![ia] = c.xa, ![ib] = c.xa],
     v |-> [st.v EXCEPT ![ia] = c.va, ![ib] = c.vb]]

\* force_vir[m][n] += x[i][m] * dfi[n] for the heavy atom and the Drude
Virial(vir, st, ia, ib, ma, mb, vinita, vinitb, dt) ==
    LET dfa == svmulF(FMul(ma, FDiv(I2R(1), FMul(dt, Rat(1, 2)))), rvec_sub(st.v[ia], vinita))
        dfb == svmulF(FMul(mb, FDiv(I2R(1), FMul(dt, Rat(1, 2)))), rvec_sub(st.v[ib], vinitb))
    IN  [m \in Axes |-> [n \in Axes |->
           FAdd(FAdd(vir[m][n], FMul(st.x[ia][m], dfa[n])), FMul(st.x[ib][m], dfb[n]))]]

\* the state a correction c of the pair leaves
Impose(st, vir, ia, ib, ma, mb, c) ==
    [met |-> "corrected", state |-> WriteBack(st, ia, ib, c),
     vir |-> Virial(vir, WriteBack(st, ia, ib, c), ia, ib, ma, mb, st.v[ia], st.v[ib], c.dt)]

\* the pass over a Drude pair outside the wall, rab apart along vecab
hardwall_pair(st, vir, ia, ib, vecab, rab, mdat, inp) ==
    IF TooFar(rab, inp.drude_r)
    THEN [met |-> "fatal", state |-> st, vir |-> vir]
    ELSE Impose(st, vir, ia, ib, mdat.massT[ia], mdat.massT[ib],
                Reflect(st.x[ia], st.x[ib], st.v[ia], st.v[ib],
                        mdat.massT[ia], mdat.massT[ib],
                        svmulF(FDiv(I2R(1), rab), vecab), FSub(rab, inp.drude_r), inp,
                        BondVelocities(st.v[ia], st.v[ib], mdat.massT[ia], mdat.massT[ib],
                                       svmulF(FDiv(I2R(1), rab), vecab))))

\* one pass of the loop body over the entry iatoms: what it met ("other",
\* "inside", "corrected", "fatal") and the state it leaves
hardwall_entry(st, vir, iatoms, mdat, inp) ==
    LET pair == DrudePair(mdat.ptype, iatoms)
    IN  IF pair = <<>> THEN [met |-> "other", state |-> st, vir |-> vir]
        ELSE IF ~OutsideWall(norm2F(pbc_dx(st.x[pair[2]], st.x[pair[1]])),
                             FMul(inp.drude_r, inp.drude_r))
        THEN [met |-> "inside", state |-> st, vir |-> vir]
        ELSE hardwall_pair(st, vir, pair[1], pair[2], pbc_dx(st.x[pair[2]], st.x[pair[1]]),
                           sqrt(norm2F(pbc_dx(st.x[pair[2]], st.x[pair[1]]))), mdat, inp)

\* the variables of apply_drude_hardwall while the function is not run
NoVirial == [m \in Axes |-> [n \in Axes |-> Zero]]
WallIdle ==
    /\ idef = [il |-> [ft \in {flocal[1], flocal[2]} |-> <<>>]]
    /\ md = [ptype |-> Arr(<<>>), massT |-> Arr(<<>>)]
    /\ ir = [delta_t |-> delta_t, kbt |-> Zero, drude_r |-> Zero]
    /\ hw_state = [x |-> Arr(<<>>), v |-> Arr(<<>>)]
    /\ force_vir = NoVirial
    /\ hw_j = 0
    /\ hw_pc = "idle"
    /\ hw_log = <<>>

(* ------------------------------------------------------------------ *)
(* Initial state: after init_shell_flexcon and make_local_shells        *)
(* ------------------------------------------------------------------ *)
RelaxInitOn(sgl, ind) ==
    /\ cr \in Partitions
    /\ shell_gl = [r \in Ranks |-> sgl]
    /\ shell_loc = [r \in Ranks |->
                      IF DOMAINDECOMP
                      THEN make_local_shells(cr.gatindex[r], sgl, ind)
                      ELSE Arr(<<>>)]
    /\ pos   = [r \in Ranks |-> [b \in 0..1 |-> [a \in DOMAIN cr.gatindex[r] |-> UNINIT]]]
    /\ force = [r \in Ranks |-> [b \in 0..1 |-> [a \in DOMAIN cr.gatindex[r] |-> UNINIT]]]
    /\ numForceEvaluations = [r \in Ranks |-> 0]
    /\ numConvergedIterations = [r \in Ranks |-> 0]
    /\ bPredict \in BOOLEAN
    /\ evaluator \in ForceFields
    /\ inputrec \in [em_tol : {evaluator.em_tol}, niter : Budgets, init_step : {0},
                     bContinuation : BOOLEAN, scf : BOOLEAN]
    /\ inputrec.bContinuation => bPredict         \* only read when predicting
    /\ ~inputrec.scf => inputrec.niter = 0        \* the budget is not read then
    /\ state = [r \in Ranks |-> [x |-> StartX(clear_rvec, cr.gatindex[r]),
                                 v |-> StartV(cr.gatindex[r])]]
    /\ f = [r \in Ranks |-> [a \in DOMAIN cr.gatindex[r] |-> clear_rvec]]
    /\ mdstep = 0
    /\ Min = [r \in Ranks |-> 0]
    /\ count = [r \in Ranks |-> 0]
    /\ df = [r \in Ranks |-> [b \in 0..1 |-> Zero]]
    /\ bConverged = [r \in Ranks |-> FALSE]
    /\ pc = "idle"
    /\ warned = [r \in Ranks |-> FALSE]
    /\ nCalls = 0
    /\ nDoForce = [r \in Ranks |-> 0]
    /\ dfEval = [r \in Ranks |-> <<>>]
    /\ outcome = [r \in Ranks |-> <<>>]
    /\ atEntry = [numForceEvaluations |-> numForceEvaluations,
                  numConvergedIterations |-> numConvergedIterations,
                  nDoForce |-> nDoForce]
    /\ arg = [p |-> clear_rvec, predict |-> "none",
              step |-> [r \in Ranks |-> [i \in DOMAIN shell(r) |-> shell(r)[i].step]]]
    /\ prevRun = [valid |-> FALSE, arg |-> arg, bConverged |-> bConverged,
                  count |-> count, x |-> [r \in Ranks |-> state[r].x]]

RelaxInit == RelaxInitOn(RelaxShells, RelaxShellIndex)

\* The state after construction: init_shell_flexcon has run on the topology
\* with the Drude mode of inputrec (extended Lagrangian when it is not SCF)
\* and has returned; shfc->bPredict is what it left
Init ==
    /\ mtop \in RelaxTopologies
    /\ RelaxInitOn(init_shell_flexcon(mtop, RelaxSetup).shfc.shell_gl,
                   init_shell_flexcon(mtop, RelaxSetup).shfc.shell_index_gl)
    /\ mtop # RelaxTopology => ~cr.dd
    /\ mtop = ThreeNuclei => (evaluator.kind = "harm" /\ evaluator.K = 1)
    /\ \E su \in RelaxSetups : setup = [su EXCEPT !.lagrangian = ~inputrec.scf]
    /\ setup.nopredict => mtop = RelaxTopology
    /\ mtop = WithVSite => (evaluator.kind = "harm" /\ evaluator.K = 1 /\ setup.nflexcon = 0)
    /\ setup.nflexcon > 0 =>
          (mtop = RelaxTopology /\ ~cr.dd /\ evaluator.kind = "harm" /\ evaluator.K = 1)
    /\ shfc = init_shell_flexcon(mtop, setup).shfc
    /\ ipc = init_shell_flexcon(mtop, setup).status
    /\ fatalMsg = init_shell_flexcon(mtop, setup).msg
    /\ bPredict = shfc.bPredict
    /\ shell_nalloc = FirstCapacity(TRUE)
    /\ WallIdle

(* ------------------------------------------------------------------ *)
(* relax_shell_flexcon, executed by all ranks in step (do_force and the *)
(* reduction in rms_force are collective)                               *)
(* ------------------------------------------------------------------ *)
\* Entry up to the head of the iteration loop: prediction, the first force
\* evaluation, the first RMS force, the copy into both buffers.
RelaxBegin(p) ==
    /\ pc \in {"idle", "returned"}
    /\ nCalls < MaxCalls
    /\ LET step0 == inputrec.init_step + nCalls
           bCont == (step0 = inputrec.init_step) /\ inputrec.bContinuation
           bInit == (step0 = inputrec.init_step)
           gat(r) == cr.gatindex[r]
           x1 == [r \in Ranks |->
                    IF Predicts(bPredict, bCont)
                    THEN predict_shells(CallerX(p, gat(r)), StartV(gat(r)), delta_t, shell(r),
                                        [a \in DOMAIN gat(r) |-> massGl[gat(r)[a]]], bInit)
                    ELSE CallerX(p, gat(r))]
           f0 == [r \in Ranks |-> do_force(evaluator, gat(r), x1[r])]
           b0 == [r \in Ranks |->
                    rms_force_buf0(f0[r], shell(r),
                                   IF nflexcon > 0 THEN sf_dir(gat(r), init_adir(gat(r), x1[r]))
                                   ELSE Zero)]
           ns == [r \in Ranks |-> nshell(r)]
           d0 == [r \in Ranks |-> rms_force(r, b0, ns, nflexcon, PAR)]
       IN  /\ mdstep' = step0
           /\ state' = [r \in Ranks |-> [x |-> x1[r], v |-> StartV(gat(r))]]
           /\ Min' = [r \in Ranks |-> 0]
           /\ force' = [r \in Ranks |-> [force[r] EXCEPT ![0] = f0[r]]]
           /\ nDoForce' = [r \in Ranks |-> nDoForce[r] + 1]
           /\ nCalls' = nCalls + 1
           /\ warned' = [r \in Ranks |-> FALSE]
           /\ atEntry' = [numForceEvaluations |-> numForceEvaluations,
                           numConvergedIterations |-> numConvergedIterations,
                           nDoForce |-> nDoForce]
           /\ arg' = [p |-> p,
                     predict |-> IF ~Predicts(bPredict, bCont) THEN "none"
                                 ELSE IF bInit THEN "from x" ELSE "from v",
                     step |-> [r \in Ranks |-> [i \in DOMAIN shell(r) |-> shell(r)[i].step]]]
           /\ prevRun' = IF pc = "returned"
                         THEN [valid |-> TRUE, arg |-> arg, bConverged |-> bConverged,
                               count |-> count, x |-> [r \in Ranks |-> state[r].x]]
                         ELSE prevRun
           /\ IF inputrec.scf
              THEN /\ df' = [r \in Ranks |-> [b \in 0..1 |-> IF b = 0 THEN d0[r] ELSE Zero]]
                   /\ pos' = [r \in Ranks |->
                                IF nshell(r) + nflexcon > 0
                                THEN [b \in 0..1 |-> x1[r]]
                                ELSE pos[r]]
                   /\ bConverged' = [r \in Ranks |-> ConvergedAtStart(d0[r], ftol2)]
                   /\ count' = [r \in Ranks |-> 1]
                   /\ dfEval' = [r \in Ranks |-> <<d0[r]>>]
                   /\ pc' = "loop"
              ELSE /\ count' = [r \in Ranks |-> 0]
                   /\ bConverged' = [r \in Ranks |-> FALSE]
                   /\ dfEval' = [r \in Ranks |-> <<>>]
                   /\ pc' = "fatal"
                   /\ UNCHANGED <<df, pos>>
    /\ UNCHANGED <<cr, shell_gl, shell_loc, numForceEvaluations, numConvergedIterations,
                   bPredict, inputrec, evaluator, f, outcome>>
    /\ UNCHANGED shell_nalloc
    /\ UNCHANGED buildVars
    /\ UNCHANGED wallVars

\* the accepted positions handed to do_force again
TrialPositions_Accepted(r) == pos[r][Min[r]]

\* pos[Try] of rank r when a pass hands it to do_force: construct_vsites on
\* pos[Min], directional_sd from pos[Min] into pos[Try] under flexible
\* constraints, then shell_pos_sd
TrialPositions(r) ==
    LET xMin == IF vsite THEN construct_vsites(cr.gatindex[r], pos[r][Min[r]])
                ELSE pos[r][Min[r]]
        xDir == IF nflexcon > 0
                THEN directional_sd(xMin, init_adir(cr.gatindex[r], xMin), fc_stepsize)
                ELSE pos[r][Try(r)]
    IN  shell_pos_sd_x(xMin, xDir, force[r][Min[r]],
                       shell_pos_sd_s(pos[r][Min[r]], force[r][Min[r]], shell(r), count[r]))

\* One pass of the loop body on every rank
RelaxIterate ==
    /\ pc = "loop"
    /\ \A r \in Ranks : LoopContinues(bConverged[r], count[r], inputrec.niter)
    /\ LET gat(r) == cr.gatindex[r]
           xMin == [r \in Ranks |-> IF vsite THEN construct_vsites(gat(r), pos[r][Min[r]])
                                                ELSE pos[r][Min[r]]]
           s2   == [r \in Ranks |->
                      shell_pos_sd_s(pos[r][Min[r]], force[r][Min[r]], shell(r), count[r])]
           xTry == [r \in Ranks |-> TrialPositions(r)]
           fTry == [r \in Ranks |-> do_force(evaluator, gat(r), xTry[r])]
           b0   == [r \in Ranks |->
                      rms_force_buf0(fTry[r], s2[r],
                                     IF nflexcon > 0
                                     THEN sf_dir(gat(r), init_adir(gat(r), xTry[r]))
                                     ELSE Zero)]
           ns   == [r \in Ranks |-> nshell(r)]
           dTry == [r \in Ranks |-> rms_force(r, b0, ns, nflexcon, PAR)]
           acc  == [r \in Ranks |-> Accept(dTry[r], df[r][Min[r]])]
           s3   == [r \in Ranks |-> IF acc[r] THEN s2[r] ELSE decrease_step_size(s2[r])]
       IN  /\ pos' = [r \in Ranks |-> [pos[r] EXCEPT ![Min[r]] = xMin[r], ![Try(r)] = xTry[r]]]
           /\ state' = [r \in Ranks |->
                          IF nflexcon > 0 /\ acc[r]
                          THEN [state[r] EXCEPT
                                  !.v = CorrectVelocities(state[r].v, xTry[r], xMin[r], delta_t)]
                          ELSE state[r]]
           /\ force' = [r \in Ranks |-> [force[r] EXCEPT ![Try(r)] = fTry[r]]]
           /\ df' = [r \in Ranks |-> [df[r] EXCEPT ![Try(r)] = dTry[r]]]
           /\ bConverged' = [r \in Ranks |-> Converged(dTry[r], ftol2)]
           /\ Min' = [r \in Ranks |-> IF acc[r] THEN Try(r) ELSE Min[r]]
           /\ IF DOMAINDECOMP
              THEN shell_loc' = s3 /\ UNCHANGED shell_gl
              ELSE shell_gl' = s3 /\ UNCHANGED shell_loc
           /\ count' = [r \in Ranks |-> count[r] + 1]
           /\ nDoForce' = [r \in Ranks |-> nDoForce[r] + 1]
           /\ dfEval' = [r \in Ranks |-> Append(dfEval[r], dTry[r])]
    /\ UNCHANGED <<cr, numForceEvaluations, numConvergedIterations, bPredict, inputrec,
                   evaluator, f, mdstep, pc, warned, nCalls, outcome, atEntry, arg, prevRun>>
    /\ UNCHANGED shell_nalloc
    /\ UNCHANGED buildVars
    /\ UNCHANGED wallVars

\* After the loop: counters, the non-convergence warning, the copy back
RelaxEnd ==
    /\ pc = "loop"
    /\ \A r \in Ranks : ~LoopContinues(bConverged[r], count[r], inputrec.niter)
    /\ numForceEvaluations' =
          [r \in Ranks |-> AddEvaluations(numForceEvaluations[r], count[r])]
    /\ numConvergedIterations' =
          [r \in Ranks |-> numConvergedIterations[r] + (IF bConverged[r] THEN 1 ELSE 0)]
    /\ warned' = [r \in Ranks |-> MASTER(r) /\ ~bConverged[r]]
    /\ \E g \in Garbage :
          /\ state' = [r \in Ranks |->
                         [state[r] EXCEPT !.x = ReadBuf(CopyBack(pos[r], Min[r]), g)]]
          /\ f' = [r \in Ranks |-> ReadBuf(CopyBack(force[r], Min[r]), g)]
    /\ outcome' = [r \in Ranks |-> Append(outcome[r], bConverged[r])]
    /\ pc' = "returned"
    /\ UNCHANGED <<cr, shell_gl, shell_loc, pos, force, bPredict, inputrec, evaluator,
                   mdstep, Min, count, df, bConverged, nCalls, nDoForce, dfEval,
                   atEntry, arg, prevRun>>
    /\ UNCHANGED shell_nalloc
    /\ UNCHANGED buildVars
    /\ UNCHANGED wallVars

Next ==
    \/ \E p \in ShellStarts : RelaxBegin(p)
    \/ RelaxIterate
    \/ RelaxEnd

Spec == Init /\ [][Next]_vars

(* ------------------------------------------------------------------ *)
(* Runs of init_shell_flexcon on the topologies explored; the           *)
(* relaxation engine is not run in these behaviours                     *)
(* ------------------------------------------------------------------ *)
BuildInit ==
    /\ RelaxInit
    /\ ~cr.dd /\ ~bPredict /\ evaluator.kind = "const" /\ inputrec.niter = 0
    /\ \E pt \in BuildPtypes, nmol \in 1..2, qB3 \in {-2, 0}, l \in BondLists(MaxBonds) :
          /\ (\A a \in DOMAIN pt : pt[a] # eptShell) => (Len(l) <= 1 /\ nmol = 1 /\ qB3 = -2)
          /\ mtop = MkTop(pt, nmol, qB3, l)
    /\ setup \in Setups
    /\ shfc = NoTable
    /\ ipc = "start"
    /\ fatalMsg = ""
    /\ shell_nalloc = FirstCapacity(TRUE)
    /\ WallIdle

\* the call of init_shell_flexcon
InitShellFlexcon ==
    /\ ipc = "start"
    /\ LET res == init_shell_flexcon(mtop, setup)
       IN  /\ shfc' = res.shfc
           /\ ipc' = res.status
           /\ fatalMsg' = res.msg
    /\ UNCHANGED <<mtop, setup, relaxVars, wallVars>>

BuildNext == InitShellFlexcon

BuildSpec == BuildInit /\ [][BuildNext]_vars

(* ------------------------------------------------------------------ *)
(* Runs of apply_drude_hardwall: extended-Lagrangian Drudes carry mass. *)
(*   atoms 0,1 : heavy atom and its Drude                               *)
(*   atoms 2,3 : heavy atom and its Drude                               *)
(* ------------------------------------------------------------------ *)
WallPtype == Arr(<<eptAtom, eptShell, eptAtom, eptShell>>)
WallMass  == Arr(<<I2R(3), I2R(1), I2R(2), I2R(1)>>)
\* the bonded lists explored: each Drude bond in either atom order, a bond
\* between two atoms, one between two Drudes, a pair listed under both types
WallLists ==
    { [F_BONDS |-> << <<0, 1>>, <<0, 2>>, <<3, 2>> >>,
       F_POLARIZATION |-> << <<1, 0>>, <<1, 3>> >>],
      [F_BONDS |-> << >>,
       F_POLARIZATION |-> << <<2, 3>>, <<1, 0>> >>] }
WallInputs == [delta_t |-> delta_t, kbt |-> I2R(4), drude_r |-> I2R(3)]
\* Drude 1 relative to its atom: inside the wall, on it, outside it along an
\* axis and off the axes, at twice the wall, beyond it
DrudeStarts == { V(1, 0, 0), V(3, 0, 0), V(4, 0, 0), V(0, 3, 4), V(6, 0, 0), V(7, 0, 0) }
Drude3Starts == { V(11, 0, 0), V(10, 4, 0), V(10, 0, 7) }
AtomVs  == { V(0, 0, 0), V(1, 0, 0), V(1, 2, 0) }
DrudeVs == { V(0, 0, 0), V(-1, 0, 0), V(2, 1, 1) }

WallInit ==
    /\ RelaxInit
    /\ ~cr.dd /\ evaluator.kind = "const" /\ ~inputrec.scf /\ ~inputrec.bContinuation
    /\ mtop = RelaxTopology
    /\ setup = [RelaxSetup EXCEPT !.lagrangian = TRUE]
    /\ shfc = init_shell_flexcon(mtop, setup).shfc
    /\ ipc = init_shell_flexcon(mtop, setup).status
    /\ fatalMsg = init_shell_flexcon(mtop, setup).msg
    /\ bPredict = shfc.bPredict
    /\ shell_nalloc = FirstCapacity(TRUE)
    /\ \E l \in WallLists : idef = [il |-> l]
    /\ md = [ptype |-> WallPtype, massT |-> WallMass]
    /\ ir = WallInputs
    /\ \E x1 \in DrudeStarts, x3 \in Drude3Starts, v0 \in AtomVs, v1 \in DrudeVs :
          hw_state = [x |-> Arr(<<V(0, 0, 0), x1, V(10, 0, 0), x3>>),
                      v |-> Arr(<<v0, v1, V(0, 0, 0), V(0, 1, 0)>>)]
    /\ force_vir = NoVirial
    /\ hw_j = 1
    /\ hw_pc = "loop"
    /\ hw_log = <<>>

\* one pass of the loop body
HardwallEntry ==
    /\ hw_pc = "loop"
    /\ hw_j <= Len(Entries(idef.il))
    /\ LET iatoms == Entries(idef.il)[hw_j]
           res    == hardwall_entry(hw_state, force_vir, iatoms, md, ir)
       IN  /\ hw_state' = res.state
           /\ force_vir' = res.vir
           /\ hw_pc' = IF res.met = "fatal" THEN "fatal" ELSE "loop"
           /\ hw_j' = IF res.met = "fatal" THEN hw_j ELSE hw_j + 1
           /\ hw_log' = Append(hw_log, [j |-> hw_j, iatoms |-> iatoms, met |-> res.met,
                                        before |-> hw_state, vir |-> force_vir])
    /\ UNCHANGED <<idef, md, ir>>
    /\ UNCHANGED <<relaxVars, buildVars>>

\* both lists are exhausted
HardwallReturn ==
    /\ hw_pc = "loop"
    /\ hw_j > Len(Entries(idef.il))
    /\ hw_pc' = "returned"
    /\ UNCHANGED <<idef, md, ir, hw_state, force_vir, hw_j, hw_log>>
    /\ UNCHANGED <<relaxVars, buildVars>>

WallNext == HardwallEntry \/ HardwallReturn

WallSpec == WallInit /\ [][WallNext]_vars

(* ------------------------------------------------------------------ *)
(* Runs of make_local_shells: the home atoms of the two ranks change     *)
(* from one call to the next; the relaxation engine is not run           *)
(* ------------------------------------------------------------------ *)
\* a set of atoms as a home list in increasing global index
RECURSIVE HomeList(_)
HomeList(S) ==
    IF S = {} THEN <<>>
    ELSE LET g == CHOOSE g \in S : \A h \in S : h <= g
         IN  Append(HomeList(S \ {g}), g)

\* the decompositions a call may find: every split of the atoms over two ranks
LocalPartitions ==
    { [dd |-> TRUE, gatindex |-> Arr(<<Arr(HomeList(S)), Arr(HomeList(GAtoms \ S))>>)] :
        S \in SUBSET GAtoms }

LocalInit ==
    /\ RelaxInit
    /\ cr.dd /\ evaluator.kind = "const" /\ inputrec.scf /\ inputrec.niter = 0
    /\ ~inputrec.bContinuation
    /\ mtop = RelaxTopology
    /\ setup = RelaxSetup
    /\ shfc = init_shell_flexcon(mtop, setup).shfc
    /\ ipc = init_shell_flexcon(mtop, setup).status
    /\ fatalMsg = init_shell_flexcon(mtop, setup).msg
    /\ bPredict = shfc.bPredict
    /\ \E b \in BOOLEAN : shell_nalloc = FirstCapacity(b)
    /\ WallIdle

\* a call of make_local_shells under domain decomposition, on every rank (on
\* a single node the function only aliases the global table: see shell(r))
MakeLocalShells ==
    /\ DOMAINDECOMP
    /\ \E part \in LocalPartitions, b \in BOOLEAN :
          /\ cr' = part
          /\ shell_loc' = [r \in Ranks |->
                             make_local_shells(part.gatindex[r], shell_gl[r],
                                               shfc.shell_index_gl)]
          /\ shell_nalloc' = [r \in Ranks |->
                                shell_nalloc_after(shell_nalloc[r], 0,
                                                   Size(shell_loc'[r]), b)]
    /\ UNCHANGED <<shell_gl, pos, force, numForceEvaluations, numConvergedIterations,
                   bPredict, inputrec, evaluator, state, f, mdstep, Min, count, df,
                   bConverged, pc, warned, nCalls, nDoForce, dfEval, outcome, atEntry,
                   arg, prevRun>>
    /\ UNCHANGED <<buildVars, wallVars>>

LocalNext == MakeLocalShells

LocalSpec == LocalInit /\ [][LocalNext]_vars

(* ------------------------------------------------------------------ *)
(* Properties of init_shell_flexcon                                     *)
(* ------------------------------------------------------------------ *)
\* the interactions of one molecule in the order the scan visits them
RECURSIVE MolScanFrom(_, _)
MolScanFrom(mt, j) ==
    IF j > NBT THEN << >>
    ELSE [n \in 1..Len(mt.ilist[bondtypes[j]]) |->
             Endpoints(mt, bondtypes[j], mt.ilist[bondtypes[j]][n].ia)]
         \o MolScanFrom(mt, j + 1)

\* every attachment the scan makes, in scan order: global shell end and nucleus
Attachments(mt) ==
    LET ms == SelectSeq(MolScanFrom(mt, 1), LAMBDA ep : ep.aS # -1)
    IN  [n \in 1..(mt.nmol * Len(ms)) |->
            LET off == ((n - 1) \div Len(ms)) * natoms_mol(mt)
                ep  == ms[((n - 1) % Len(ms)) + 1]
            IN  [aS |-> off + ep.aS, aN |-> off + ep.aN]]

\* the nuclei attached to record i of the table, in scan order
NucleiOf(mt, i) ==
    LET mine == SelectSeq(Attachments(mt), LAMBDA at : ShellIndex(mt)[at.aS] = i)
    IN  [n \in 1..Len(mine) |-> mine[n].aN]

\* the number of attachments the scan makes to particle g
NAttached(mt, g) ==
    Cardinality({n \in DOMAIN Attachments(mt) : Attachments(mt)[n].aS = g})

\* C9: when init_shell_flexcon returns with a table, every record has nnucl in
\* {1,2,3}, nnucl is the number of filled slots, the slots are filled in the
\* order nucl1, nucl2, nucl3, and they hold the nuclei in scan order.
C9_AttachmentSlots ==
    (ipc = "returned" /\ shfc.nshell_gl > 0) =>
        \A i \in DOMAIN shfc.shell_gl :
            LET sh    == shfc.shell_gl[i]
                slots == <<sh.nucl1, sh.nucl2, sh.nucl3>>
                nuc   == NucleiOf(mtop, i)
            IN  /\ sh.nnucl \in {1, 2, 3}
                /\ sh.nnucl = Cardinality({j \in 1..3 : slots[j] # -1})
                /\ sh.nucl2 # -1 => sh.nucl1 # -1
                /\ sh.nucl3 # -1 => sh.nucl2 # -1
                /\ Len(nuc) = sh.nnucl
                /\ \A j \in 1..3 : slots[j] = IF j <= Len(nuc) THEN nuc[j] ELSE -1

\* a table of two molecules with a shell of three nuclei and a shell of one
C9_Witness ==
    /\ ipc = "returned"
    /\ mtop.nmol = 2
    /\ shfc.nshell_gl = 4
    /\ \E i \in DOMAIN shfc.shell_gl :
          shfc.shell_gl[i].nnucl = 3 /\ shfc.shell_gl[i].nucl3 # -1
    /\ \E i \in DOMAIN shfc.shell_gl :
          shfc.shell_gl[i].nnucl = 1 /\ shfc.shell_gl[i].nucl2 = -1

\* C10 as stated: if the scanned interactions give some shell a fourth
\* attachment, or leave some shell-typed particle without any, the call ends in
\* a fatal error and no table is published.
C10_FatalOnBadAttachments ==
    (/\ ipc # "start"
     /\ \E g \in 0..(natoms(mtop) - 1) :
           \/ NAttached(mtop, g) >= 4
           \/ ptype_gl(mtop, g) = eptShell /\ NAttached(mtop, g) = 0) =>
        (ipc = "fatal" /\ shfc.nshell_gl = 0 /\ shfc.shell_gl = NoTable.shell_gl)

\* C12: init_shell_flexcon ends in the nstcalcenergy fatal error whenever the
\* system has a shell or a flexible constraint and nstcalcenergy # 1; with
\* neither it returns without error whatever nstcalcenergy is.
C12_EnergyEveryStep ==
    ipc # "start" =>
        LET some == countPtypes(mtop, eptShell) > 0 \/ setup.nflexcon > 0
        IN  /\ (some /\ setup.nstcalcenergy # 1) =>
                  (ipc = "fatal" /\ fatalMsg = "nstcalcenergy" /\ shfc.nshell_gl = 0)
            /\ ~some => (ipc = "returned" /\ fatalMsg = "" /\ shfc = NoTable)
            /\ fatalMsg = "nstcalcenergy" => (some /\ setup.nstcalcenergy # 1)

\* flexible constraints but no shell, nstcalcenergy = 2: fatal
C12_Witness ==
    /\ ipc = "fatal" /\ fatalMsg = "nstcalcenergy"
    /\ countPtypes(mtop, eptShell) = 0
    /\ setup.nflexcon > 0 /\ setup.nstcalcenergy = 2

\* the shell-typed particles among the atoms of an interaction
ShellsOf(mt, ia) == {ia[n] : n \in DOMAIN ia} \cap {a \in DOMAIN mt.ptype : mt.ptype[a] = eptShell}

\* C13 as stated: if some interaction of a charge-dependent type (anharmonic,
\* anisotropic or water polarization) restrains a shell whose charges qA and
\* qB differ, init_shell_flexcon ends in a fatal error.
C13_UnequalChargesFatal ==
    (/\ ipc # "start"
     /\ \E ft \in {"F_ANHARM_POL", "F_ANISO_POL", "F_WATER_POL"} :
           \E n \in DOMAIN mtop.ilist[ft] :
              \E a \in ShellsOf(mtop, mtop.ilist[ft][n].ia) : mtop.q[a] # mtop.qB[a]) =>
        ipc = "fatal"

\* A running call executes its loop to the end: weak fairness of RelaxIterate
\* and of RelaxEnd.  For RelaxIterate the definition of WF is written out with
\* the action's guard, which is what ENABLED <<RelaxIterate>>_vars amounts to
\* (a pass always increments count).
IterateEnabled ==
    pc = "loop" /\ \A r \in Ranks : LoopContinues(bConverged[r], count[r], inputrec.niter)

FairSpec ==
    /\ Spec
    /\ ([]<>~IterateEnabled \/ []<><<RelaxIterate>>_vars)
    /\ WF_vars(RelaxEnd)

(* ------------------------------------------------------------------ *)
(* Properties of relax_shell_flexcon                                    *)
(* ------------------------------------------------------------------ *)
\* C1 (amended): a call whose first RMS force is strictly below em_tol makes
\* exactly one force evaluation and no trial iteration, ends converged
\* (numConvergedIterations incremented, no warning), and count is 1 when the
\* loop ends.
C1_ZeroIterationConvergence ==
    \A r \in Ranks :
        (pc = "returned" /\ RLt(dfEval[r][1], ftol2)) =>
            /\ Len(dfEval[r]) = 1
            /\ nDoForce[r] = atEntry.nDoForce[r] + 1
            /\ bConverged[r]
            /\ numConvergedIterations[r] = atEntry.numConvergedIterations[r] + 1
            /\ ~warned[r]
            /\ count[r] = 1

\* C1 as stated: the same call ends with count equal to 0.
C1_AsStated ==
    \A r \in Ranks :
        (pc = "returned" /\ RLt(dfEval[r][1], ftol2)) =>
            /\ Len(dfEval[r]) = 1
            /\ bConverged[r]
            /\ numConvergedIterations[r] = atEntry.numConvergedIterations[r] + 1
            /\ ~warned[r]
            /\ count[r] = 0

C1_Witness ==
    /\ pc = "returned"
    /\ RLt(dfEval[0][1], ftol2)
    /\ Len(dfEval[0]) = 1
    /\ inputrec.niter > 1
    /\ bConverged[0] /\ count[0] = 1 /\ numConvergedIterations[0] = 1

\* C2: with budget niter = N >= 1 and an RMS force that never drops below the
\* tolerance, the call ends with count = N, not converged, and with the warning
\* on the master rank (and on no other rank).
C2_BudgetExhausted ==
    \A r \in Ranks :
        (/\ pc = "returned"
         /\ inputrec.niter >= 1
         /\ \A i \in DOMAIN dfEval[r] : ~RLt(dfEval[r][i], ftol2)) =>
            /\ count[r] = inputrec.niter
            /\ Len(dfEval[r]) = inputrec.niter
            /\ ~bConverged[r]
            /\ warned[r] <=> MASTER(r)

C2_Witness ==
    /\ pc = "returned"
    /\ inputrec.niter = MaxIter
    /\ count[0] = MaxIter
    /\ \A i \in DOMAIN dfEval[0] : ~RLt(dfEval[0][i], ftol2)
    /\ ~bConverged[0] /\ warned[0]
    /\ \E r \in Ranks : ~MASTER(r) /\ ~warned[r]

\* C3: a call under a supported update mode never aborts and always returns;
\* it makes at most max(1, niter) force evaluations; on return the caller gets
\* the accepted positions and forces (pos[Min], force[Min]), and a call that did
\* not converge warns on the master rank.
C3_TerminatesWithinBudget ==
    /\ [](inputrec.scf => pc # "fatal")
    /\ [](pc = "loop" =>
            \A r \in Ranks :
                /\ count[r] <= (IF inputrec.niter > 1 THEN inputrec.niter ELSE 1)
                /\ Len(dfEval[r]) = count[r])
    /\ (pc = "loop") ~> (pc = "returned")
    /\ [][(pc = "loop" /\ pc' = "returned") =>
            \A r \in Ranks :
                /\ \A a \in DOMAIN state'[r].x :
                      pos[r][Min[r]][a] # UNINIT => state'[r].x[a] = pos[r][Min[r]][a]
                /\ f'[r] = force[r][Min[r]]
                /\ ~bConverged[r] => (warned'[r] <=> MASTER(r))]_vars

C3_Witness ==
    /\ pc = "returned"
    /\ inputrec.niter >= 3
    /\ count[0] = inputrec.niter
    /\ ~bConverged[0] /\ warned[0]
    /\ Min[0] = 1
    /\ state[0].x = pos[0][1] /\ f[0] = force[0][1] /\ force[0][1] # force[0][0]

\* C4 (amended): if the RMS force is >= tolerance at the first evaluation and at
\* the trials 1..n-1, and the trial of iteration n (the loop pass made with
\* count = n) is below the tolerance, the call ends after that pass, converged,
\* with count = n + 1.
C4_ConvergesAtIterationN ==
    \A r \in Ranks : \A n \in 1..(Len(dfEval[r]) - 1) :
        (/\ pc = "returned"
         /\ \A i \in 1..n : ~RLt(dfEval[r][i], ftol2)
         /\ RLt(dfEval[r][n + 1], ftol2)) =>
            /\ bConverged[r]
            /\ Len(dfEval[r]) = n + 1
            /\ count[r] = n + 1

\* C4 as stated: the same call ends converged with count = n.
C4_AsStated ==
    \A r \in Ranks : \A n \in 1..(Len(dfEval[r]) - 1) :
        (/\ pc = "returned"
         /\ \A i \in 1..n : ~RLt(dfEval[r][i], ftol2)
         /\ RLt(dfEval[r][n + 1], ftol2)) =>
            /\ bConverged[r]
            /\ count[r] = n

\* the scenario: above the tolerance at the start and at two trials, below it at
\* the trial of iteration 3
C4_Witness ==
    /\ pc = "returned"
    /\ Len(dfEval[0]) = 4
    /\ \A i \in 1..3 : ~RLt(dfEval[0][i], ftol2)
    /\ RLt(dfEval[0][4], ftol2)
    /\ bConverged[0] /\ count[0] = 4

\* C5: within one call df[Min] never increases from one iteration to the next,
\* and every swap of Min and Try strictly decreases it.
C5_MonotoneAcceptance ==
    [][(pc = "loop" /\ pc' = "loop") =>
          \A r \in Ranks :
              /\ ~RLt(df[r][Min[r]], df'[r][Min'[r]])
              /\ Min'[r] # Min[r] => RLt(df'[r][Min'[r]], df[r][Min[r]])]_vars

\* an acceptance followed by a rejection
C5_Witness ==
    /\ pc = "loop"
    /\ count[0] >= 3
    /\ Min[0] = 1
    /\ RLt(df[0][1], df[0][0])
    /\ RLt(df[0][1], dfEval[0][1])

\* C6: a trial whose RMS force equals the accepted best is rejected: Min stays
\* and every shell's step becomes 0.8 times the step the trial was made with;
\* an RMS force equal to the tolerance is not converged, at the first
\* evaluation or at a trial.
C6_StrictInequalities ==
    /\ [][(pc = "loop" /\ pc' = "loop") =>
            \A r \in Ranks :
                df'[r][1 - Min[r]] = df[r][Min[r]] =>
                    /\ Min'[r] = Min[r]
                    /\ \A i \in DOMAIN shell(r) : \A d \in Axes :
                          LET a == shell(r)[i].shell
                          IN  /\ RMul(shell(r)'[i].step[d], force[r][Min[r]][a][d]) =
                                    RMul(step_scale_min,
                                         RSub(pos'[r][1 - Min[r]][a][d], pos[r][Min[r]][a][d]))
                              /\ count[r] = 1 =>
                                    shell(r)'[i].step[d] =
                                        RMul(step_scale_min, shell(r)[i].k_1)]_vars
    /\ [](pc \in {"loop", "returned"} =>
            \A r \in Ranks :
                dfEval[r][Len(dfEval[r])] = ftol2 => ~bConverged[r])

\* a first trial that ties with the start, both on the tolerance
C6_Witness ==
    /\ pc = "loop"
    /\ count[0] = 2
    /\ dfEval[0][1] = ftol2 /\ dfEval[0][2] = ftol2
    /\ Min[0] = 0 /\ ~bConverged[0]
    /\ \E i \in DOMAIN shell(0) :
          /\ force[0][0][shell(0)[i].shell] # clear_rvec
          /\ shell(0)[i].step[1] = RMul(step_scale_min, shell(0)[i].k_1)

\* C7 as stated: a call started from the same inputs as the call before it
\* (positions, velocities, prediction, starting step sizes; evaluator, tolerance
\* and budget are fixed) ends with the same converged flag, the same count and
\* the same final positions.
C7_Determinism ==
    (pc = "returned" /\ prevRun.valid /\ prevRun.arg = arg) =>
        \A r \in Ranks :
            /\ bConverged[r] = prevRun.bConverged[r]
            /\ count[r] = prevRun.count[r]
            /\ state[r].x = prevRun.x[r]

\* C8: between calls numForceEvaluations is the number of do_force invocations
\* made and numConvergedIterations the number of calls that ended converged,
\* which is at most the number of calls; no counter is ever below the value the
\* last call found.
C8_Counters ==
    \A r \in Ranks :
        /\ pc \in {"idle", "returned"} =>
              /\ numForceEvaluations[r] = nDoForce[r]
              /\ numConvergedIterations[r] =
                    Cardinality({i \in DOMAIN outcome[r] : outcome[r][i]})
              /\ Len(outcome[r]) = nCalls
              /\ numConvergedIterations[r] <= nCalls
        /\ numForceEvaluations[r] >= atEntry.numForceEvaluations[r]
        /\ numConvergedIterations[r] >= atEntry.numConvergedIterations[r]

\* two calls made, one converged after trials, one not
C8_Witness ==
    /\ pc = "returned"
    /\ nCalls = 2
    /\ numConvergedIterations[0] = 1
    /\ numForceEvaluations[0] >= 4
    /\ numForceEvaluations[0] = nDoForce[0]

\* C11 as stated: an update mode that is not supported (neither SCF nor an
\* energy minimiser) has ended init_shell_flexcon in a fatal error, and no
\* force evaluation is made under it.
C11_UnsupportedModeCaughtAtSetup ==
    ~inputrec.scf => (ipc = "fatal" /\ \A r \in Ranks : nDoForce[r] = 0)

\* C14 as stated: once init_shell_flexcon has returned, no step of the
\* relaxation changes any field of any record of the global shell table.
C14_GlobalTableFrozen == [][shell_gl' = shell_gl]_vars

\* C15 as stated: in a call that follows another call, the step of the first
\* trial continues from the step the shell had when the call before ended:
\* it is the secant update of that step (with the recorded previous position
\* and force), exactly as in the later passes.
C15_StepContinuesAcrossCalls ==
    [][(pc = "loop" /\ pc' = "loop" /\ nCalls >= 2) =>
          \A r \in Ranks : count[r] = 1 =>
              \A i \in DOMAIN shell(r) : \A d \in Axes :
                  LET a == shell(r)[i].shell
                  IN  pos'[r][1][a][d] =
                         RAdd(pos[r][0][a][d],
                              RMul(force[r][0][a][d],
                                   NewStep(shell(r)[i].step[d],
                                           RSub(pos[r][0][a][d], shell(r)[i].xold[d]),
                                           RSub(force[r][0][a][d], shell(r)[i].fold[d]))))]_vars

(* ------------------------------------------------------------------ *)
(* Properties of apply_drude_hardwall                                   *)
(* ------------------------------------------------------------------ *)
\* the entries the loop has corrected so far, and the one it met last
CorrectedEntries == { i \in DOMAIN hw_log : hw_log[i].met = "corrected" }
LastEntry(lg) == lg[Len(lg)]
\* squared distance of the pair of a Drude entry in the state st
PairDistance2(st, iatoms) ==
    LET pair == DrudePair(md.ptype, iatoms)
    IN  norm2F(rvec_sub(st.x[pair[2]], st.x[pair[1]]))

\* C16: once the call has returned, the stored positions of the two particles
\* of every bond it corrected are at most the wall radius apart
C16_CorrectedBondWithinWall ==
    hw_pc = "returned" =>
        \A i \in CorrectedEntries :
            LET d2 == PairDistance2(hw_state, hw_log[i].iatoms)
            IN  ~isnan(d2) /\ RLe(d2, RMul(ir.drude_r, ir.drude_r))

\* C17: a correction changes the velocities of the pair so that the mass-
\* weighted changes cancel along the bond: m_a dv_a + m_b dv_b has no
\* component along the vector from the heavy atom to the Drude
C17_BondMomentumConserved ==
    [][(hw_log' # hw_log /\ LastEntry(hw_log').met = "corrected") =>
         LET pair == DrudePair(md.ptype, LastEntry(hw_log').iatoms)
             ia   == pair[1]
             ib   == pair[2]
             bond == rvec_sub(hw_state.x[ib], hw_state.x[ia])
             dva  == rvec_sub(hw_state'.v[ia], hw_state.v[ia])
             dvb  == rvec_sub(hw_state'.v[ib], hw_state.v[ib])
         IN  FAdd(FMul(md.massT[ia], iprod(dva, bond)),
                  FMul(md.massT[ib], iprod(dvb, bond))) = Zero]_vars

\* C18: the pass over an entry ends in gmx_fatal exactly when the entry joins
\* a Drude to a heavy atom more than twice the wall radius apart, and that
\* pass leaves every position, every velocity and the virial as it found them
C18_FatalBeyondTwiceWall ==
    [][hw_log' # hw_log =>
         LET iatoms == LastEntry(hw_log').iatoms
             beyond == /\ DrudePair(md.ptype, iatoms) # <<>>
                       /\ FGt(PairDistance2(hw_state, iatoms),
                              FMul(I2R(4), FMul(ir.drude_r, ir.drude_r)))
         IN  /\ (hw_pc' = "fatal") <=> beyond
             /\ hw_pc' = "fatal" => (hw_state' = hw_state /\ force_vir' = force_vir)]_vars

\* a run that corrected one bond and then stopped at one beyond twice the wall
C18_Witness ==
    /\ hw_pc = "fatal"
    /\ CorrectedEntries # {}
    /\ hw_state # hw_log[1].before

(* ------------------------------------------------------------------ *)
(* Properties of the shell predictor                                    *)
(* ------------------------------------------------------------------ *)
\* C19: when a shell sits in another charge group than one of its nuclei, or
\* GMX_NOPREDICT is set, or the Drudes are integrated (extended Lagrangian),
\* init_shell_flexcon leaves bPredict FALSE and no call of
\* relax_shell_flexcon runs predict_shells
C19_NoPredictionWhenDisabled ==
    (shfc.bInterCG \/ setup.nopredict \/ setup.lagrangian) =>
        (~shfc.bPredict /\ ~bPredict /\ arg.predict = "none")

\* two calls have been made on a topology with a shell outside the charge
\* group of its nuclei and nothing else that disables the predictor
C19_Witness ==
    /\ nCalls = 2 /\ pc = "returned"
    /\ shfc.bInterCG /\ ~setup.nopredict /\ ~setup.lagrangian
    /\ ~inputrec.bContinuation

\* the nuclei a record of the local shell table names
NucleiOfShell(rec) ==
    { rec.nucl1 } \cup (IF rec.nnucl >= 2 THEN { rec.nucl2 } ELSE {})
                  \cup (IF rec.nnucl >= 3 THEN { rec.nucl3 } ELSE {})

\* C20: a call on a later step that predicts hands on the caller's positions
\* with every shell moved, on each axis, by delta_t times the mass-weighted
\* mean velocity of its one to three nuclei; every other position and every
\* velocity is the caller's
C20_PredictFromVelocities ==
    [][(nCalls' = nCalls + 1 /\ arg'.predict = "from v") =>
         \A r \in Ranks :
            LET gat == cr.gatindex[r]
                x0  == CallerX(arg'.p, gat)
                v0  == StartV(gat)
                m   == [a \in DOMAIN gat |-> massGl[gat[a]]]
            IN  /\ state'[r].v = v0
                /\ \A a \in DOMAIN gat :
                      IF \E i \in DOMAIN shell(r) : shell(r)[i].shell = a
                      THEN LET i  == CHOOSE i \in DOMAIN shell(r) : shell(r)[i].shell = a
                               ns == NucleiOfShell(shell(r)[i])
                           IN  /\ shell(r)[i].nnucl \in 1..3
                               /\ \A d \in Axes :
                                     state'[r].x[a][d] =
                                        RAdd(x0[a][d],
                                             RDiv(RMul(delta_t,
                                                       RSum([n \in ns |-> RMul(m[n], v0[n][d])], ns)),
                                                  RSum([n \in ns |-> m[n]], ns)))
                      ELSE state'[r].x[a] = x0[a]]_vars

\* the second call of a run has predicted: the shell of three nuclei of
\* unequal mass has left the position the caller gave it
C20_Witness ==
    /\ nCalls = 2 /\ pc = "loop" /\ arg.predict = "from v"
    /\ ~cr.dd
    /\ shell(0)[1].nnucl = 3
    /\ massGl[shell(0)[1].nucl1] # massGl[shell(0)[1].nucl2]
    /\ state[0].x[shell(0)[1].shell] # arg.p

(* ------------------------------------------------------------------ *)
(* Properties of make_local_shells                                      *)
(* ------------------------------------------------------------------ *)
\* the home particles of a rank typed as shells
HomeShells(gat) == { i \in DOMAIN gat : ptypeGl[gat[i]] = eptShell }
\* the record of the global table for the particle of global index g
GlobalRecord(sgl, g) == sgl[CHOOSE j \in DOMAIN sgl : sgl[j].shell = g]

\* C21: a call under domain decomposition leaves on every rank one record
\* per home shell particle i, in increasing i; the record is the global
\* record of that particle with shell = i and each used nucleus index moved
\* by the same offset as the shell; the capacity does not shrink and is at
\* least the number of records
C21_LocalTableIsProjection ==
    [][(cr' # cr \/ shell_loc' # shell_loc \/ shell_nalloc' # shell_nalloc) =>
         \A r \in Ranks :
            LET gat == cr'.gatindex[r]
                tbl == shell_loc'[r]
            IN  /\ Size(tbl) = Cardinality(HomeShells(gat))
                /\ { tbl[n].shell : n \in DOMAIN tbl } = HomeShells(gat)
                /\ \A n1, n2 \in DOMAIN tbl : n1 < n2 => tbl[n1].shell < tbl[n2].shell
                /\ \A n \in DOMAIN tbl :
                      LET i   == tbl[n].shell
                          g   == GlobalRecord(shell_gl[r], gat[i])
                          off == i - g.shell
                      IN  /\ tbl[n].nucl1 = g.nucl1 + off
                          /\ g.nnucl > 1 => tbl[n].nucl2 = g.nucl2 + off
                          /\ g.nnucl > 2 => tbl[n].nucl3 = g.nucl3 + off
                          /\ [tbl[n] EXCEPT !.shell = g.shell, !.nucl1 = g.nucl1,
                                            !.nucl2 = g.nucl2, !.nucl3 = g.nucl3] = g
                /\ shell_nalloc'[r] >= shell_nalloc[r]
                /\ shell_nalloc'[r] >= Size(tbl)]_vars

\* after a repartition both shells are home on rank 1, away from their
\* global indices, and the array of rank 1 has been renewed for the second
C21_Witness ==
    /\ cr.dd /\ cr \notin Partitions
    /\ Size(shell_loc[1]) = 2
    /\ shell_loc[1][1].nnucl = 2
    /\ shell_loc[1][1].shell # 4
    /\ shell_nalloc[1] = 2

(* ------------------------------------------------------------------ *)
(* Properties of the iteration across ranks                             *)
(* ------------------------------------------------------------------ *)
\* C22: on several ranks every rank holds the same RMS force for both
\* buffers, the same accepted buffer, the same converged flag and the same
\* iteration count, and inside the loop all ranks agree on whether to go on
C22_RanksAgree ==
    PAR =>
        /\ \A r1, r2 \in Ranks :
              /\ df[r1] = df[r2]
              /\ dfEval[r1] = dfEval[r2]
              /\ Min[r1] = Min[r2]
              /\ bConverged[r1] = bConverged[r2]
              /\ count[r1] = count[r2]
              /\ outcome[r1] = outcome[r2]
        /\ pc = "loop" =>
              \A r1, r2 \in Ranks :
                 LoopContinues(bConverged[r1], count[r1], inputrec.niter)
                    = LoopContinues(bConverged[r2], count[r2], inputrec.niter)

\* two ranks, one of them without any shell, have accepted one trial and
\* rejected another
C22_Witness ==
    /\ PAR /\ nshell(0) = 0 /\ nshell(1) = 2
    /\ Len(dfEval[0]) >= 3
    /\ df[0][Min[0]] # Zero
    /\ \E i, j \in 2..Len(dfEval[0]) :
          /\ RLt(dfEval[0][i], dfEval[0][i - 1])
          /\ ~RLt(dfEval[0][j], dfEval[0][j - 1])

(* ------------------------------------------------------------------ *)
(* Properties of one pass of the loop                                   *)
(* ------------------------------------------------------------------ *)
\* the shell table as shell_pos_sd leaves it before the trial of this pass
TrialShells(r) ==
    shell_pos_sd_s(pos[r][Min[r]], force[r][Min[r]], shell(r), count[r])

C25_FirstTrialStep ==
    [][\A r \in Ranks :
          (pc = "loop" /\ count[r] = 1 /\ count'[r] = 2) =>
             \A i \in DOMAIN shell(r) : \A d \in Axes :
                LET a == shell(r)[i].shell
                IN  /\ TrialShells(r)[i].step[d] = RInv(shell(r)[i].k)
                    /\ shell(r)'[i].step[d] \in
                          { RInv(shell(r)[i].k), RMul(Rat(8, 10), RInv(shell(r)[i].k)) }
                    /\ pos'[r][Try(r)][a][d] =
                          RAdd(pos[r][Min[r]][a][d],
                               RMul(force[r][Min[r]][a][d], RInv(shell(r)[i].k)))]_vars

\* the first pass of a second call has moved the shell of constant k = 2,
\* whose step the first call had left different from 1/k
C25_Witness ==
    /\ ~cr.dd /\ nCalls = 2 /\ pc = "loop" /\ count[0] = 2
    /\ shell(0)[0].k = I2R(2)
    /\ prevRun.valid /\ arg.step[0][0][1] # RInv(shell(0)[0].k)
    /\ pos[0][1][shell(0)[0].shell] # pos[0][0][shell(0)[0].shell]

\* the axes of the shells of rank r on which the force on the accepted
\* buffer differs from the one recorded by the pass before
SecantAxes(r) ==
    { <<i, d>> \in (DOMAIN shell(r)) \X Axes :
        force[r][Min[r]][shell(r)[i].shell][d] # shell(r)[i].fold[d] }
\* -dx/df on such an axis
SecantEstimate(r, i, d) ==
    RNeg(RDiv(RSub(pos[r][Min[r]][shell(r)[i].shell][d], shell(r)[i].xold[d]),
              RSub(force[r][Min[r]][shell(r)[i].shell][d], shell(r)[i].fold[d])))

\* C26: on a later pass (count > 1), on an axis whose force has changed, the
\* trial is made with the step 0.8 s + 0.2 min(2 s, max(-dx/df, 0)) for the
\* previous step s; for s > 0 this lies between 0.8 s and 1.2 s
C26_SecantStepBounded ==
    [][\A r \in Ranks :
          (pc = "loop" /\ count[r] > 1 /\ count'[r] = count[r] + 1) =>
             \A e \in SecantAxes(r) :
                LET st  == shell(r)[e[1]].step[e[2]]
                    new == TrialShells(r)[e[1]].step[e[2]]
                    a   == shell(r)[e[1]].shell
                IN  /\ new = RAdd(RMul(Rat(8, 10), st),
                                  RMul(Rat(2, 10),
                                       RMin(RMul(I2R(2), st),
                                            RMax(SecantEstimate(r, e[1], e[2]), Zero))))
                    /\ pos'[r][Try(r)][a][e[2]] =
                          RAdd(pos[r][Min[r]][a][e[2]],
                               RMul(force[r][Min[r]][a][e[2]], new))
                    /\ RLt(Zero, st) =>
                          /\ RLe(RMul(Rat(8, 10), st), new)
                          /\ RLe(new, RMul(Rat(12, 10), st))
                          /\ RLt(Zero, new)]_vars

\* a later pass is about to start on an axis whose secant estimate is more
\* than twice the step
C26_Witness ==
    /\ pc = "loop" /\ count[0] > 1 /\ LoopContinues(bConverged[0], count[0], inputrec.niter)
    /\ \E e \in SecantAxes(0) :
          /\ RLt(Zero, shell(0)[e[1]].step[e[2]])
          /\ RLt(RMul(I2R(2), shell(0)[e[1]].step[e[2]]), SecantEstimate(0, e[1], e[2]))

\* the axes of the shells of rank r on which the force on the accepted
\* buffer equals the one recorded by the pass before
FlatAxes(r) == ((DOMAIN shell(r)) \X Axes) \ SecantAxes(r)
\* the position on the accepted buffer differs from the recorded one
Moved(r, i, d) == pos[r][Min[r]][shell(r)[i].shell][d] # shell(r)[i].xold[d]

\* C27: on a later pass (count > 1), on an axis whose force has not changed,
\* the trial is made with the step multiplied by 1.2 when the position has
\* changed, and with the step as it was when the position has not changed
\* either
C27_FlatAxisStep ==
    [][\A r \in Ranks :
          (pc = "loop" /\ count[r] > 1 /\ count'[r] = count[r] + 1) =>
             \A e \in FlatAxes(r) :
                LET st  == shell(r)[e[1]].step[e[2]]
                    new == IF Moved(r, e[1], e[2]) THEN RMul(st, Rat(12, 10)) ELSE st
                    a   == shell(r)[e[1]].shell
                IN  /\ TrialShells(r)[e[1]].step[e[2]] = new
                    /\ pos'[r][Try(r)][a][e[2]] =
                          RAdd(pos[r][Min[r]][a][e[2]],
                               RMul(force[r][Min[r]][a][e[2]], new))]_vars

\* a later pass is about to start with a shell that has moved along an axis
\* on which the force stayed the same and is not zero
C27_Witness ==
    /\ pc = "loop" /\ count[0] > 1 /\ LoopContinues(bConverged[0], count[0], inputrec.niter)
    /\ \E e \in FlatAxes(0) :
          /\ Moved(0, e[1], e[2])
          /\ force[0][Min[0]][shell(0)[e[1]].shell][e[2]] # Zero

\* C27 as stated: with an unchanged force the step is kept, unless the
\* position has not changed either, and then it is multiplied by 1.2
C27_AsStated ==
    [][\A r \in Ranks :
          (pc = "loop" /\ count[r] > 1 /\ count'[r] = count[r] + 1) =>
             \A e \in FlatAxes(r) :
                LET st == shell(r)[e[1]].step[e[2]]
                IN  TrialShells(r)[e[1]].step[e[2]] =
                       IF Moved(r, e[1], e[2]) THEN st ELSE RMul(st, Rat(12, 10))]_vars

(* ------------------------------------------------------------------ *)
(* Properties of the velocities and of the order of the calls          *)
(* ------------------------------------------------------------------ *)
\* a step that is one pass of the loop
IsPass == pc = "loop" /\ \A r \in Ranks : count'[r] = count[r] + 1
\* the pass has found its trial better than the accepted best
TrialAccepted(r) == RLt(df'[r][Try(r)], df[r][Min[r]])

C28_OneEvaluationPerPass ==
    [][/\ IsPass =>
            \A r \in Ranks :
               /\ ~bConverged[r] /\ count[r] < inputrec.niter
               /\ nDoForce'[r] = nDoForce[r] + 1
               /\ \A i \in DOMAIN shell(r) : \A d \in Axes :
                     pos'[r][Try(r)][shell(r)[i].shell][d] =
                        RAdd(pos[r][Min[r]][shell(r)[i].shell][d],
                             RMul(force[r][Min[r]][shell(r)[i].shell][d],
                                  TrialShells(r)[i].step[d]))
               /\ force'[r][Try(r)] = do_force(evaluator, cr.gatindex[r], pos'[r][Try(r)])
               /\ df'[r][Try(r)] =
                     RDiv(RSum([q \in Ranks |->
                                  RAdd(IF shfc.nflexcon > 0
                                       THEN sf_dir(cr.gatindex[q],
                                                   init_adir(cr.gatindex[q], pos'[q][Try(q)]))
                                       ELSE Zero,
                                       RSum([i \in DOMAIN shell(q) |->
                                               norm2(force'[q][Try(q)][shell(q)[i].shell])],
                                            DOMAIN shell(q)))],
                               Ranks),
                          I2R(RSum([q \in Ranks |-> I2R(nshell(q))], Ranks)[1] + shfc.nflexcon))
               /\ bConverged'[r] = RLt(df'[r][Try(r)], ftol2)
               /\ Min'[r] = (IF TrialAccepted(r) THEN Try(r) ELSE Min[r])
               /\ dfEval'[r] = Append(dfEval[r], df'[r][Try(r)])
               /\ Len(dfEval'[r]) = count'[r]
       /\ (pc # "loop" /\ pc' = "loop") =>
            \A r \in Ranks : count'[r] = 1 /\ Len(dfEval'[r]) = 1
       /\ (pc = "loop" /\ pc' = "loop") => IsPass
       /\ (pc = "loop" /\ pc' # "loop") =>
            \A r \in Ranks : (bConverged[r] \/ count[r] >= inputrec.niter)
                                /\ nDoForce'[r] = nDoForce[r]]_vars

\* a call has made three passes, the last of them on the accepted buffer of
\* an earlier rejected trial, and has not converged
C28_Witness ==
    /\ pc = "loop" /\ count[0] = 4 /\ ~bConverged[0]
    /\ Len(dfEval[0]) = 4
    /\ \E n \in 2..3 : ~RLt(dfEval[0][n + 1], dfEval[0][n])
    /\ nDoForce[0] = atEntry.nDoForce[0] + 4

\* C29: with virtual sites, the buffer a pass hands to do_force holds every
\* site where construct_vsites puts it for the positions of that buffer
C29_VSitesOnTrialPositions ==
    [][(IsPass /\ vsite) =>
          \A r \in Ranks :
             pos'[r][Try(r)] = construct_vsites(cr.gatindex[r], pos'[r][Try(r)])]_vars

\* a step that is the entry of a call up to the head of its loop
IsEntry == nCalls' = nCalls + 1
\* predict_shells applied to the caller's coordinates of rank r by the entry
PredictedAtEntry(r) ==
    predict_shells(CallerX(arg'.p, cr.gatindex[r]), StartV(cr.gatindex[r]), delta_t, shell(r),
                   [a \in DOMAIN cr.gatindex[r] |-> massGl[cr.gatindex[r][a]]],
                   mdstep' = inputrec.init_step)

\* C30: with prediction enabled, a call that is not the first step of a
\* continuation run applies the predictor once, to the caller's coordinates,
\* and makes its first force evaluation on the predicted positions; the
\* first step of a continuation run evaluates the caller's coordinates as
\* they are; no pass of the loop and no statement after it predicts
C30_PredictBeforeFirstEvaluation ==
    [][/\ (IsEntry /\ shfc.bPredict) =>
            \A r \in Ranks :
               /\ state'[r].x =
                     IF mdstep' = inputrec.init_step /\ inputrec.bContinuation
                     THEN CallerX(arg'.p, cr.gatindex[r])
                     ELSE PredictedAtEntry(r)
               /\ force'[r][0] = do_force(evaluator, cr.gatindex[r], state'[r].x)
               /\ nDoForce'[r] = nDoForce[r] + 1
               /\ (arg'.predict = "none") =
                     (mdstep' = inputrec.init_step /\ inputrec.bContinuation)
       /\ IsPass => (arg' = arg /\ \A r \in Ranks : state'[r].x = state[r].x)
       /\ (pc = "loop" /\ pc' # "loop") =>
            (arg' = arg /\ \E g \in Garbage : \A r \in Ranks :
                              state'[r].x = ReadBuf(pos[r][Min[r]], g))]_vars

\* a second call has moved a shell by prediction from the velocities and
\* has then made two passes
C30_Witness ==
    /\ shfc.bPredict /\ nCalls = 2 /\ pc = "loop" /\ count[0] = 3
    /\ arg.predict = "from v"
    /\ \E a \in DOMAIN state[0].x :
          ptypeGl[cr.gatindex[0][a]] = eptShell /\ state[0].x[a] # arg.p

\* C30 as stated: every call with prediction enabled applies the predictor
C30_AsStated ==
    [][(IsEntry /\ shfc.bPredict) =>
          /\ arg'.predict # "none"
          /\ \A r \in Ranks : state'[r].x = PredictedAtEntry(r)]_vars

(* ------------------------------------------------------------------ *)
(* Further properties of apply_drude_hardwall                           *)
(* ------------------------------------------------------------------ *)
\* the corrected positions and velocities the pass over the Drude entry
\* iatoms computes from the state st: the locals xa, xb, va, vb at line 1236
CorrectionOf(st, iatoms) ==
    LET pair  == DrudePair(md.ptype, iatoms)
        vec   == pbc_dx(st.x[pair[2]], st.x[pair[1]])
        rab   == sqrt(norm2F(vec))
        vecab == svmulF(FDiv(I2R(1), rab), vec)
    IN  Reflect(st.x[pair[1]], st.x[pair[2]], st.v[pair[1]], st.v[pair[2]],
                md.massT[pair[1]], md.massT[pair[2]], vecab, FSub(rab, ir.drude_r), ir,
                BondVelocities(st.v[pair[1]], st.v[pair[2]],
                               md.massT[pair[1]], md.massT[pair[2]], vecab))

\* C31: a correction stores for the heavy atom and for the Drude the
\* corrected position computed for each of them, and the two stored
\* positions are the wall radius apart
C31_OwnPositionsAtTheWall ==
    [][(hw_log' # hw_log /\ LastEntry(hw_log').met = "corrected") =>
         LET iatoms == LastEntry(hw_log').iatoms
             pair   == DrudePair(md.ptype, iatoms)
             c      == CorrectionOf(hw_state, iatoms)
         IN  /\ hw_state'.x[pair[1]] = c.xa
             /\ hw_state'.x[pair[2]] = c.xb
             /\ PairDistance2(hw_state', iatoms) = RMul(ir.drude_r, ir.drude_r)]_vars

\* the entry joins one Drude to one heavy atom that are, in the state st,
\* strictly more than the wall radius apart
Violates(st, iatoms) ==
    /\ {md.ptype[iatoms[1]], md.ptype[iatoms[2]]} = {eptShell, eptAtom}
    /\ FGt(norm2F(rvec_sub(st.x[iatoms[1]], st.x[iatoms[2]])), FMul(ir.drude_r, ir.drude_r))

\* C32: the passes of a call take the entries of F_BONDS and then of
\* F_POLARIZATION in list order, one pass each; a pass over an entry that
\* does not join one Drude to one heavy atom, or whose pair is not strictly
\* more than the wall radius apart, leaves positions, velocities and the
\* virial as they were; a call that meets no violating bond returns with
\* the state it was given
C32_OnePassPerEntryOthersUntouched ==
    [][/\ hw_log' # hw_log =>
            /\ hw_log' = Append(hw_log, LastEntry(hw_log'))
            /\ LastEntry(hw_log').iatoms = Entries(idef.il)[Len(hw_log')]
            /\ ~Violates(hw_state, LastEntry(hw_log').iatoms) =>
                  (hw_state' = hw_state /\ force_vir' = force_vir /\ hw_pc' = "loop")
       /\ hw_log' = hw_log => (hw_state' = hw_state /\ force_vir' = force_vir)
       /\ hw_pc' = "returned" =>
            /\ Len(hw_log') = Len(Entries(idef.il))
            /\ (\A i \in DOMAIN hw_log' : ~Violates(hw_log'[i].before, hw_log'[i].iatoms)) =>
                  \A i \in DOMAIN hw_log' :
                     hw_log'[i].before = hw_state' /\ hw_log'[i].vir = force_vir']_vars

\* a call has returned after passes over a bond of two heavy atoms, a Drude
\* exactly on the wall and a Drude inside it, and none outside
C32_Witness ==
    /\ hw_pc = "returned" /\ Len(hw_log) = 5
    /\ \E i \in DOMAIN hw_log : hw_log[i].met = "other"
    /\ \E i \in DOMAIN hw_log :
          /\ hw_log[i].met = "inside"
          /\ PairDistance2(hw_log[i].before, hw_log[i].iatoms) = RMul(ir.drude_r, ir.drude_r)
    /\ \A i \in DOMAIN hw_log : hw_log[i].met # "corrected"

(* ------------------------------------------------------------------ *)
(* Further properties of init_shell_flexcon                             *)
(* ------------------------------------------------------------------ *)
\* C33: in a published table, every shell an anisotropic polarization
\* interaction restrains has received that interaction's force constant and
\* holds non-zero components k11, k22 and k33
C33_AnisotropicComponents ==
    (ipc = "returned" /\ shfc.nshell_gl > 0) =>
        \A n \in DOMAIN mtop.ilist["F_ANISO_POL"] :
           \A a \in ShellsOf(mtop, mtop.ilist["F_ANISO_POL"][n].ia) :
              \A m \in 0..(mtop.nmol - 1) :
                 LET sh == shfc.shell_gl[shfc.shell_index_gl[m * natoms_mol(mtop) + a]]
                 IN  sh.k11 # Zero /\ sh.k22 # Zero /\ sh.k33 # Zero

\* the force constant one attaching interaction stands for: krA, kb or k of
\* the bonded types, qS^2 * ONE_4PI_EPS0 / alpha of the polarisation types
ForceConstant(mt, ftype, p, aS) ==
    LET qq == I2R(mt.q[aS] * mt.q[aS])
    IN  CASE ftype \in {"F_BONDS", "F_HARMONIC"} -> p.krA
          [] ftype = "F_CUBICBONDS" -> p.kb
          [] ftype \in {"F_POLARIZATION", "F_HYPER_POL"} -> p.k
          [] ftype = "F_ANHARM_POL" -> RDiv(RMul(qq, ONE_4PI_EPS0), p.alpha)
          [] ftype = "F_WATER_POL" ->
                RDiv(RMul(qq, ONE_4PI_EPS0),
                     RDiv(RAdd(p.al_x, RAdd(p.al_y, p.al_z)), I2R(3)))
          [] OTHER -> Zero

\* the attaching interactions of one molecule from type j on, in scan order:
\* the shell end within the molecule and the constant
RECURSIVE MolConstantsFrom(_, _)
MolConstantsFrom(mt, j) ==
    IF j > NBT THEN << >>
    ELSE LET il   == mt.ilist[bondtypes[j]]
             mine == SelectSeq([n \in 1..Len(il) |->
                                  [aS |-> Endpoints(mt, bondtypes[j], il[n].ia).aS,
                                   p  |-> il[n].p]],
                               LAMBDA e : e.aS # -1)
         IN  [n \in 1..Len(mine) |->
                 [aS |-> mine[n].aS,
                  kc |-> ForceConstant(mt, bondtypes[j], mine[n].p, mine[n].aS)]]
             \o MolConstantsFrom(mt, j + 1)

\* the sum of the constants of the attachments to record i of the table, over
\* every molecule instance
ExpectedK(mt, i) ==
    LET ms == MolConstantsFrom(mt, 1)
        at == { <<m, n>> \in (0..(mt.nmol - 1)) \X DOMAIN ms :
                   ShellIndex(mt)[m * natoms_mol(mt) + ms[n].aS] = i }
    IN  RSum([e \in at |-> ms[e[2]].kc], at)

\* C34: after a successful init_shell_flexcon the k of every shell record is
\* the sum of the force constants of the scanned interactions that attached a
\* nucleus to it, one contribution per attachment over all interaction types
\* and molecule instances, and k_1 is the reciprocal of that sum.
C34_ForceConstantSum ==
    (ipc = "returned" /\ shfc.nshell_gl > 0) =>
        \A i \in DOMAIN shfc.shell_gl :
            /\ shfc.shell_gl[i].k = ExpectedK(mtop, i)
            /\ shfc.shell_gl[i].k # Zero
            /\ RMul(shfc.shell_gl[i].k_1, shfc.shell_gl[i].k) = I2R(1)

\* two molecules whose shell has a bond, a polarisation and a hyperpolarisation
\* (k = 2 + 3 + 1), next to a shell restrained by water polarisation
C34_Witness ==
    /\ ipc = "returned"
    /\ mtop.nmol = 2
    /\ shfc.nshell_gl = 4
    /\ \E i \in DOMAIN shfc.shell_gl :
          shfc.shell_gl[i].nnucl = 3 /\ shfc.shell_gl[i].k = I2R(6)
                                    /\ shfc.shell_gl[i].k_1 = Rat(1, 6)
    /\ Len(mtop.ilist["F_WATER_POL"]) > 0

(* ------------------------------------------------------------------ *)
(* Properties of what a call hands back                                 *)
(* ------------------------------------------------------------------ *)
\* a step that is the statements after the loop
IsReturn == pc = "loop" /\ pc' = "returned"

\* the part of C35 that concerns rank r: what a rejected trial leaves, what
\* the return copies, and that a call ending converged has evaluated the
\* buffer it returns
ReturnsAccepted(r) ==
    /\ (IsPass /\ ~TrialAccepted(r)) =>
          /\ Min'[r] = Min[r]
          /\ force'[r][Min[r]] = force[r][Min[r]]
          /\ df'[r][Min[r]] = df[r][Min[r]]
          /\ \A i \in DOMAIN shell(r) :
                pos'[r][Min[r]][shell(r)[i].shell] = pos[r][Min[r]][shell(r)[i].shell]
    /\ (IsPass /\ bConverged'[r]) =>
          /\ Min'[r] = Try(r)
          /\ pos'[r][Min'[r]] = TrialPositions(r)
          /\ force'[r][Min'[r]] = do_force(evaluator, cr.gatindex[r], pos'[r][Min'[r]])
    /\ (IsEntry /\ pc' = "loop" /\ bConverged'[r]) =>
          /\ force'[r][Min'[r]] = do_force(evaluator, cr.gatindex[r], state'[r].x)
          /\ pos'[r][Min'[r]] = state'[r].x
    /\ IsReturn =>
          /\ \A a \in DOMAIN state'[r].x :
                pos[r][Min[r]][a] # UNINIT => state'[r].x[a] = pos[r][Min[r]][a]
          /\ f'[r] = force[r][Min[r]]
          /\ \E i \in DOMAIN dfEval[r] : dfEval[r][i] = df[r][Min[r]]
          /\ \A i \in DOMAIN dfEval[r] : ~RLt(dfEval[r][i], df[r][Min[r]])
          /\ bConverged[r] =>
                /\ RLt(df[r][Min[r]], ftol2)
                /\ dfEval[r][Len(dfEval[r])] = df[r][Min[r]]

\* C35 as stated: the positions and forces copied back are those of the
\* accepted buffer, whose RMS force is the least of the call's evaluations (a
\* rejected trial leaves the accepted buffer); a call that ends converged has
\* an RMS force below the tolerance and made its last force evaluation on
\* exactly the positions it returns.
C35_ReturnsBestEvaluated ==
    [][\A r \in Ranks : ReturnsAccepted(r)]_vars

\* the same on the ranks that hold a shell or a flexible constraint
C35_OnRanksWithShells ==
    [][\A r \in Ranks : nshell(r) + nflexcon > 0 => ReturnsAccepted(r)]_vars

\* the invocations of do_force the running/last call has made on rank r
EvaluationsOfCall(r) == nDoForce[r] - atEntry.nDoForce[r]

\* C36: one call invokes the force evaluator at most max(1, niter) times, one
\* initial evaluation and at most niter - 1 trials; with niter <= 1 there is
\* no trial, and a call whose first RMS force is not below the tolerance
\* then ends not converged.
C36_EvaluationBudget ==
    nCalls > 0 =>
        \A r \in Ranks :
            /\ EvaluationsOfCall(r) >= 1
            /\ EvaluationsOfCall(r) <= (IF inputrec.niter > 1 THEN inputrec.niter ELSE 1)
            /\ pc # "fatal" => Len(dfEval[r]) = EvaluationsOfCall(r)
            /\ (pc = "returned" /\ inputrec.niter <= 1) =>
                  /\ EvaluationsOfCall(r) = 1
                  /\ count[r] = 1
                  /\ ~RLt(dfEval[r][1], ftol2) => (~bConverged[r] /\ (warned[r] <=> MASTER(r)))

\* a call with niter = 1 that started above the tolerance and has returned
C36_Witness ==
    /\ pc = "returned"
    /\ inputrec.niter = 1
    /\ RLt(ftol2, dfEval[0][1])
    /\ EvaluationsOfCall(0) = 1
    /\ ~bConverged[0]
    /\ nCalls = MaxCalls

(* ------------------------------------------------------------------ *)
(* Properties of consecutive rejections                                 *)
(* ------------------------------------------------------------------ *)
\* the trial of the pass before this one was rejected on rank r: the trial
\* buffer holds it, with an RMS force not below the least of those before it
LastRejected(r) ==
    /\ pc = "loop" /\ count[r] >= 2
    /\ \E n \in 1..(Len(dfEval[r]) - 1) : ~RLt(dfEval[r][Len(dfEval[r])], dfEval[r][n])

\* every trial the call has made so far on rank r was rejected
AllRejected(r) ==
    /\ pc = "loop" /\ count[r] >= 2 /\ Min[r] = 0
    /\ \A n \in 2..Len(dfEval[r]) : ~RLt(dfEval[r][n], dfEval[r][1])

RECURSIVE RPow(_, _)
RPow(a, n) == IF n = 0 THEN I2R(1) ELSE RMul(a, RPow(a, n - 1))

\* C37: the pass after a rejected trial finds the recorded previous position
\* and force of every shell equal to the accepted ones, so shell_pos_sd
\* leaves the step as the rejection left it, 0.8 times the step of the
\* rejected trial, and the new trial position is the accepted position plus
\* force times that step; after j rejections in a row from the first trial
\* of a call the step is 0.8^j / k.
C37_RepeatedRejections ==
    /\ [][\A r \in Ranks :
             (IsPass /\ LastRejected(r)) =>
                \A i \in DOMAIN shell(r) :
                   LET a == shell(r)[i].shell
                   IN  /\ shell(r)[i].xold = pos[r][Min[r]][a]
                       /\ shell(r)[i].fold = force[r][Min[r]][a]
                       /\ TrialShells(r)[i].step = shell(r)[i].step
                       /\ \A d \in Axes :
                             /\ pos'[r][Try(r)][a][d] =
                                   RAdd(pos[r][Min[r]][a][d],
                                        RMul(force[r][Min[r]][a][d], shell(r)[i].step[d]))
                             /\ RMul(shell(r)[i].step[d], force[r][Min[r]][a][d]) =
                                   RMul(Rat(8, 10),
                                        RSub(pos[r][Try(r)][a][d], pos[r][Min[r]][a][d]))]_vars
    /\ [](\A r \in Ranks :
             AllRejected(r) =>
                \A i \in DOMAIN shell(r) : \A d \in Axes :
                   shell(r)[i].step[d] = RMul(RPow(Rat(8, 10), count[r] - 1), shell(r)[i].k_1))

\* three rejections in a row on a single node: the step of shell 0 is
\* 0.512 / k and the third retry has been made with 0.64 / k
C37_Witness ==
    /\ ~cr.dd /\ AllRejected(0) /\ count[0] = 4
    /\ force[0][0][shell(0)[0].shell] # clear_rvec
    /\ shell(0)[0].step[1] = RMul(Rat(64, 125), shell(0)[0].k_1)
    /\ pos[0][1][shell(0)[0].shell][1] =
          RAdd(pos[0][0][shell(0)[0].shell][1],
               RMul(force[0][0][shell(0)[0].shell][1], RMul(Rat(16, 25), shell(0)[0].k_1)))

(* ------------------------------------------------------------------ *)
(* Arithmetic of a hard-wall correction                                 *)
(* ------------------------------------------------------------------ *)
\* every component of the vector is a number
IsNumber(vec) == \A d \in Axes : ~isnan(vec[d])

\* the two particles of the Drude entry have no velocity relative to each
\* other along their bond in the state st
AtRestAlongBond(st, iatoms) ==
    LET bond == rvec_sub(st.x[iatoms[1]], st.x[iatoms[2]])
    IN  iprod(st.v[iatoms[1]], bond) = iprod(st.v[iatoms[2]], bond)

\* C38 as stated: a correction (bond longer than the wall radius, at most
\* twice as long) computes corrected positions and velocities that are
\* numbers, also for a pair without relative velocity along its bond, for
\* which the time to contact is the cap; the time to contact is positive and
\* at most 2 * delta_t.
C38_WellDefinedCorrection ==
    [][(hw_log' # hw_log /\ LastEntry(hw_log').met = "corrected") =>
         LET iatoms == LastEntry(hw_log').iatoms
             c      == CorrectionOf(hw_state, iatoms)
         IN  /\ IsNumber(c.xa) /\ IsNumber(c.xb) /\ IsNumber(c.va) /\ IsNumber(c.vb)
             /\ \A a \in {iatoms[1], iatoms[2]} :
                   IsNumber(hw_state'.x[a]) /\ IsNumber(hw_state'.v[a])
             /\ FGt(c.dt, Zero) /\ ~FGt(c.dt, FMul(I2R(2), ir.delta_t))
             /\ AtRestAlongBond(hw_state, iatoms) => c.dt = FMul(I2R(2), ir.delta_t)]_vars

\* the same for the pairs that move relative to each other along their bond,
\* and the time to contact for all
C38_WhenMovingAlongBond ==
    [][(hw_log' # hw_log /\ LastEntry(hw_log').met = "corrected") =>
         LET iatoms == LastEntry(hw_log').iatoms
             c      == CorrectionOf(hw_state, iatoms)
         IN  /\ ~AtRestAlongBond(hw_state, iatoms) =>
                   /\ IsNumber(c.xa) /\ IsNumber(c.xb) /\ IsNumber(c.va) /\ IsNumber(c.vb)
                   /\ \A a \in {iatoms[1], iatoms[2]} :
                         IsNumber(hw_state'.x[a]) /\ IsNumber(hw_state'.v[a])
             /\ AtRestAlongBond(hw_state, iatoms) =>
                   /\ c.dt = FMul(I2R(2), ir.delta_t)
                   /\ ~IsNumber(hw_state'.v[iatoms[1]]) /\ ~IsNumber(hw_state'.v[iatoms[2]])
             /\ FGt(c.dt, Zero) /\ ~FGt(c.dt, FMul(I2R(2), ir.delta_t))]_vars
====
